---- MODULE Spec2Model ----
(***************************************************************************)
(* A model of lib/SILOptimizer/Mandatory/AddressLowering.cpp: the pass     *)
(* that maps every opaque (address-only) SIL value to a storage location   *)
(* and rewrites its definition and uses into address form.                 *)
(*                                                                         *)
(* The function body is a flat sequence of instruction records, blocks     *)
(* contiguous and in reverse post-order.  Value ids are stable; 0 is the   *)
(* null SILValue.  Block arguments live in bbargs, function arguments in   *)
(* the entry block's argument list.                                        *)
(***************************************************************************)
EXTENDS Integers, Sequences, FiniteSets, TLC

VARIABLES
  fn,        \* the function under transformation: CFG, conventions, original body
  code,      \* the current instruction list
  bbargs,    \* block number -> sequence of block-argument records
  vsm,       \* pass.valueStorageMap: sequence of [value, storage fields]
  phiMoves,  \* PhiRewriter::phiMoves: ids of the copy_addr emitted as phi moves
  nextId,    \* next fresh value id
  pc,        \* position of the pass
  idx,       \* table index of the running loop
  todo,      \* operands (uses) still to be rewritten
  log,       \* record of AddressMaterialization::materializeAddress calls
  ev,        \* the last PhiRewriter::materializeOperand call and what it emitted
  mem,       \* memory contents when a rewritten edge is executed
  indirectApplies,  \* pass.indirectApplies: call sites still to be rewritten
  silModule  \* the module of the module pass: its functions and its stage flag

vars ==
  <<fn, code, bbargs, vsm, phiMoves, nextId, pc, idx, todo, log, ev, mem, indirectApplies,
    silModule>>

\* The module while a single function is looked at.
NoModule == [functions |-> <<>>, loweredAddresses |-> FALSE, runs |-> 0]

\* ValueStorage::InvalidOper: projectedOperandNum of a storage that is not a
\* composing use projection.
InvalidOper == 65535

\* Largest number of merge values in the block of the edge model.
MaxPhis == 3

Range(s) == {s[i] : i \in DOMAIN s}

Inst(id, kind, ty, own, ops, blk, q, n) ==
  [id |-> id, kind |-> kind, ty |-> ty, own |-> own, ops |-> ops, blk |-> blk,
   q |-> q, n |-> n]

\* One entry of valueStorageMap.valueVector: the value and its ValueStorage.
Entry(value, addr) ==
  [value |-> value, storageAddress |-> addr, projectedStorageID |-> 0,
   projectedOperandNum |-> InvalidOper, isUseProjection |-> FALSE,
   isDefProjection |-> FALSE, isRewritten |-> FALSE, initializesEnum |-> FALSE]

----------------------------------------------------------------------------
(* Instruction list helpers (SILBuilder insertion, lookup).                 *)

HasInst(c, id) == \E i \in DOMAIN c : c[i].id = id
PosOf(c, id) == CHOOSE i \in DOMAIN c : c[i].id = id
InstOf(c, id) == c[PosOf(c, id)]

\* SILBuilder with insertion point at instruction `anchor`: the new
\* instruction goes immediately before it.
InsertBefore(c, anchor, inst) ==
  LET p == PosOf(c, anchor)
  IN SubSeq(c, 1, p - 1) \o <<inst>> \o SubSeq(c, p, Len(c))

InsertAfter(c, anchor, inst) ==
  LET p == PosOf(c, anchor)
  IN SubSeq(c, 1, p) \o <<inst>> \o SubSeq(c, p + 1, Len(c))

RemoveInst(c, id) == SelectSeq(c, LAMBDA i : i.id # id)

\* First instruction of a block (SILBasicBlock::begin()).
BlockBegin(c, b) == CHOOSE i \in DOMAIN c : c[i].blk = b /\ \A j \in DOMAIN c : c[j].blk = b => i <= j

----------------------------------------------------------------------------
(* The mutable state of one run, AddressLoweringState, threaded through    *)
(* the operators below as a record.  fatal records llvm_unreachable,       *)
(* report_fatal_error and failed casts.                                    *)

St ==
  [code |-> code, bbargs |-> bbargs, vsm |-> vsm, phiMoves |-> phiMoves,
   nextId |-> nextId, log |-> log, indirectApplies |-> indirectApplies, fatal |-> FALSE]

\* SILBuilder::create...: a new instruction with a fresh id, before `anchor`.
Emit(st, anchor, kind, ty, own, ops, q, n) ==
  [st EXCEPT !.code = InsertBefore(@, anchor,
                        Inst(st.nextId, kind, ty, own, ops, InstOf(st.code, anchor).blk, q, n)),
             !.nextId = @ + 1]

EmitAfter(st, anchor, kind, ty, own, ops, q, n) ==
  [st EXCEPT !.code = InsertAfter(@, anchor,
                        Inst(st.nextId, kind, ty, own, ops, InstOf(st.code, anchor).blk, q, n)),
             !.nextId = @ + 1]

Fatal(st) == [st EXCEPT !.fatal = TRUE]

\* ValueStorageMap::contains / getOrdinal (ordinals are 1-based here).
Contains(m, v) == \E i \in DOMAIN m : m[i].value = v
Ordinal(m, v) == CHOOSE i \in DOMAIN m : m[i].value = v
GetStorage(m, v) == m[Ordinal(m, v)]

isProjection(s) == s.isUseProjection \/ s.isDefProjection
isComposingUseProjection(s) == s.isUseProjection /\ s.projectedOperandNum # InvalidOper
isPhiProjection(s) == s.isUseProjection /\ s.projectedOperandNum = InvalidOper

\* ValueStorageMap::getBaseStorage: follow every projection to the uniquely
\* allocated storage; 0 when an enum initialisation is on the way and
\* allowInitEnum is false.  Returns the ordinal of the base.
RECURSIVE BaseOrdinal(_, _, _)
BaseOrdinal(m, i, allowInitEnum) ==
  IF ~allowInitEnum /\ m[i].initializesEnum THEN 0
  ELSE IF isProjection(m[i]) THEN BaseOrdinal(m, m[i].projectedStorageID, allowInitEnum)
  ELSE i

\* getAccessBase: strip address projections down to the alloc_stack or argument.
AddrProjections ==
  {"struct_element_addr", "tuple_element_addr", "init_enum_data_addr",
   "unchecked_take_enum_data_addr", "init_existential_addr", "open_existential_addr",
   "unchecked_addr_cast"}

RECURSIVE getAccessBase(_, _)
getAccessBase(c, a) ==
  IF HasInst(c, a) /\ InstOf(c, a).kind \in AddrProjections
  THEN getAccessBase(c, InstOf(c, a).ops[1])
  ELSE a

\* The uses of a value: (user instruction, operand number) pairs, operand
\* numbers counted from 0 as Operand::getOperandNumber does.
Uses(c, v) ==
  UNION {{<<c[i].id, k - 1>> : k \in {k \in DOMAIN c[i].ops : c[i].ops[k] = v}} : i \in DOMAIN c}

\* Types: a name and whether it is the address type of that name.
Ty(name) == [n |-> name, a |-> FALSE]
AddrTy(t) == [t EXCEPT !.a = TRUE]
ObjTy(t) == [t EXCEPT !.a = FALSE]
OpaqueNames == {"T", "S", "E", "TT", "P", "X", "O1", "O2", "SO1", "S12", "S21"}
TrivialNames == {"Int", "void", "Meta"}
isAddressOnly(t) == t.n \in OpaqueNames
isOpaqueObject(t) == t.n \in OpaqueNames /\ ~t.a
isTrivial(t) == t.n \in TrivialNames

\* SILUndef: the operand left behind by a rewritten branch use.
Undef == 0 - 1

Res(st, v) == [st |-> st, v |-> v]

\* Continue with the state and the value of a result, or with a state.
With(r, K(_, _)) == K(r.st, r.v)
Continue(st, K(_)) == K(st)

\* The block of an instruction and the terminator of a block.
Terminators ==
  {"br", "cond_br", "return", "throw", "switch_enum", "switch_enum_addr", "try_apply",
   "checked_cast_br", "checked_cast_addr_br", "unreachable", "yield", "unwind"}
TermOf(c, b) == (CHOOSE i \in DOMAIN c : c[i].blk = b /\ c[i].kind \in Terminators)
TermId(c, b) == c[TermOf(c, b)].id

isPseudoReturnValue(f, c, v) ==
  /\ f.numDirectResults >= 2
  /\ HasInst(c, v)
  /\ InstOf(c, v).kind = "tuple"
  /\ Cardinality(Uses(c, v)) = 1
  /\ \A u \in Uses(c, v) : InstOf(c, u[1]).kind = "return"

\* pass.getMaterializedAddress: the recorded address of a value's storage.
getMaterializedAddress(st, v) == GetStorage(st.vsm, v).storageAddress

----------------------------------------------------------------------------
(* AddressMaterialization.  The builder B is the instruction `anchor`      *)
(* before which new instructions are inserted.                             *)

RECURSIVE recursivelyMaterializeStorage(_, _, _, _, _)
RECURSIVE materializeProjectionIntoUse(_, _, _, _, _, _)

\* recursivelyMaterializeStorage that records the address on every path.
recursivelyMaterializeStorageRecording(f, st, anchor, i, intoPhiOperand) ==
  LET storage == st.vsm[i]
      recordAddress(r) == Res([r.st EXCEPT !.vsm[i].storageAddress = r.v], r.v)
  IN IF ~intoPhiOperand /\ storage.storageAddress # 0
     THEN Res(st, storage.storageAddress)
     ELSE IF isComposingUseProjection(storage)
     THEN LET useStorage == st.vsm[storage.projectedStorageID]
          IN IF HasInst(st.code, useStorage.value)
             THEN recordAddress(materializeProjectionIntoUse(f, st, anchor, useStorage.value,
                                    storage.projectedOperandNum, intoPhiOperand))
             ELSE recordAddress(Res(st, useStorage.storageAddress))
     ELSE IF isPhiProjection(storage)
     THEN recordAddress(recursivelyMaterializeStorage(f, st, anchor,
                            storage.projectedStorageID, TRUE))
     ELSE Res(st, storage.storageAddress)

recursivelyMaterializeStorage(f, st, anchor, i, intoPhiOperand) ==
  LET storage == st.vsm[i]
      recordAddress(r) ==
        IF intoPhiOperand THEN r
        ELSE Res([r.st EXCEPT !.vsm[i].storageAddress = r.v], r.v)
  IN IF ~intoPhiOperand /\ storage.storageAddress # 0
     THEN Res(st, storage.storageAddress)
     ELSE IF isComposingUseProjection(storage)
     THEN LET useStorage == st.vsm[storage.projectedStorageID]
          IN IF HasInst(st.code, useStorage.value)
             THEN recordAddress(materializeProjectionIntoUse(f, st, anchor, useStorage.value,
                                    storage.projectedOperandNum, intoPhiOperand))
             ELSE recordAddress(Res(st, useStorage.storageAddress))
     ELSE IF isPhiProjection(storage)
     THEN recordAddress(recursivelyMaterializeStorage(f, st, anchor,
                            storage.projectedStorageID, TRUE))
     ELSE Res(st, storage.storageAddress)

materializeProjectionIntoUse(f, st, anchor, user, opnum, intoPhiOperand) ==
  LET u == InstOf(st.code, user)
      elemTy == IF u.kind = "init_existential_value" THEN Ty("T")
                ELSE IF u.ops[opnum + 1] > 0 /\ HasInst(st.code, u.ops[opnum + 1])
                     THEN AddrTy(InstOf(st.code, u.ops[opnum + 1]).ty)
                     ELSE AddrTy(Ty("T"))
      kind == CASE u.kind = "enum" -> "init_enum_data_addr"
                [] u.kind = "init_existential_value" -> "init_existential_addr"
                [] u.kind = "struct" -> "struct_element_addr"
                [] u.kind = "tuple" -> "tuple_element_addr"
                [] OTHER -> ""
  IN IF kind = "" THEN Res(Fatal(st), 0)
     ELSE IF u.kind = "tuple" /\ isPseudoReturnValue(f, st.code, user)
     THEN Res(st, st.bbargs[1][opnum + 1].id)
     ELSE \* materializeComposingUser, then the projection out of its address
          With(recursivelyMaterializeStorage(f, st, anchor, Ordinal(st.vsm, user),
                                             intoPhiOperand),
               LAMBDA s, addr :
                 Res(Emit(s, anchor, kind, AddrTy(elemTy), "none", <<addr>>, "", opnum),
                     s.nextId))

\* materializeStructExtract / materializeTupleExtract: project the field out
\* of the aggregate operand's materialized address.
materializeExtract(st, anchor, kind, aggregate, elemTy, fieldIdx) ==
  Res(Emit(st, anchor, kind, AddrTy(elemTy), "none",
           <<getMaterializedAddress(st, aggregate)>>, "", fieldIdx),
      st.nextId)

materializeDefProjection(st, anchor, origValue) ==
  LET d == InstOf(st.code, origValue)
  IN IF ~HasInst(st.code, origValue) THEN Res(Fatal(st), 0)
     ELSE CASE d.kind = "copy_value" -> Res(st, getMaterializedAddress(st, d.ops[1]))
            [] d.kind = "struct_extract" ->
                 materializeExtract(st, anchor, "struct_element_addr", d.ops[1], d.ty, d.n)
            [] d.kind = "tuple_extract" ->
                 materializeExtract(st, anchor, "tuple_element_addr", d.ops[1], d.ty, d.n)
            [] d.kind = "destructure_result" ->
                 materializeExtract(st, anchor, "tuple_element_addr",
                                    InstOf(st.code, d.ops[1]).ops[1], d.ty, d.n)
            [] OTHER -> Res(Fatal(st), 0)

\* A materializeAddress that computes the address anew on every call and
\* never records it.
materializeAddressAnew(f, st, anchor, origValue) ==
  LET i == Ordinal(st.vsm, origValue)
      entry(s, addr) ==
        [value |-> origValue, addr |-> addr, emitted |-> Len(s.code) - Len(st.code)]
  IN With(IF st.vsm[i].isDefProjection THEN materializeDefProjection(st, anchor, origValue)
          ELSE recursivelyMaterializeStorage(f, st, anchor, i, TRUE),
          LAMBDA s, addr : Res([s EXCEPT !.log = Append(@, entry(s, addr))], addr))

\* materializeAddress, recording each call with the address returned and the
\* number of instructions it emitted.
materializeAddress(f, st, anchor, origValue) ==
  LET i == Ordinal(st.vsm, origValue)
      storage == st.vsm[i]
      entry(s, addr) ==
        [value |-> origValue, addr |-> addr, emitted |-> Len(s.code) - Len(st.code)]
  IN With(IF storage.storageAddress # 0 THEN Res(st, storage.storageAddress)
          ELSE IF storage.isUseProjection
          THEN recursivelyMaterializeStorage(f, st, anchor, i, FALSE)
          ELSE With(materializeDefProjection(st, anchor, origValue),
                    LAMBDA s, addr : Res([s EXCEPT !.vsm[i].storageAddress = addr], addr)),
          LAMBDA s, addr : Res([s EXCEPT !.log = Append(@, entry(s, addr))], addr))

----------------------------------------------------------------------------
(* PhiRewriter.  A phi operand is (branch instruction, argument number k). *)

PhiOf(st, br, k) == st.bbargs[InstOf(st.code, br).n][k].id

\* findPhiMovePosition's backward scan from position p (exclusive) to the
\* beginning of the predecessor block.
RECURSIVE ScanPhiMoves(_, _, _, _, _, _)
ScanPhiMoves(st, p, phiBaseAddress, operBaseAddress, foundEarliestInsertPoint, movePos) ==
  IF p = 1 \/ st.code[p - 1].blk # st.code[p].blk THEN movePos
  ELSE LET phiMove == st.code[p - 1]
       IN IF phiMove.kind # "copy_addr" \/ phiMove.id \notin st.phiMoves THEN movePos
          ELSE LET found == foundEarliestInsertPoint
                              \/ getAccessBase(st.code, phiMove.ops[1]) = phiBaseAddress
                   hit == getAccessBase(st.code, phiMove.ops[2]) = operBaseAddress
                   mp == IF hit
                         THEN [latestMovePos |-> phiMove.id,
                               foundAntiDependenceCycle |->
                                 movePos.foundAntiDependenceCycle \/ found]
                         ELSE movePos
               IN ScanPhiMoves(st, p - 1, phiBaseAddress, operBaseAddress, found, mp)

\* The phi moves findPhiMovePosition's loop visits when it scans backward
\* from position p: the loop ends at the first instruction that is not a
\* recorded phi move.
RECURSIVE ScannedMoves(_, _, _)
ScannedMoves(c, p, moves) ==
  IF p = 1 \/ c[p - 1].blk # c[p].blk THEN {}
  ELSE IF c[p - 1].kind # "copy_addr" \/ c[p - 1].id \notin moves THEN {}
  ELSE {c[p - 1].id} \cup ScannedMoves(c, p - 1, moves)

\* A findPhiMovePosition that never looks at the moves already emitted.
findPhiMovePositionAtBranch(st, br, k) ==
  [latestMovePos |-> br, foundAntiDependenceCycle |-> FALSE]

findPhiMovePosition(st, br, k) ==
  LET m == st.vsm
      phiBaseAddress == m[BaseOrdinal(m, Ordinal(m, PhiOf(st, br, k)), TRUE)].storageAddress
      operBaseAddress ==
        m[BaseOrdinal(m, Ordinal(m, InstOf(st.code, br).ops[k]), TRUE)].storageAddress
  IN ScanPhiMoves(st, PosOf(st.code, br), phiBaseAddress, operBaseAddress, FALSE,
                  [latestMovePos |-> br, foundAntiDependenceCycle |-> FALSE])

\* A createPhiMove with source and destination exchanged.
createPhiMoveReversed(st, anchor, from, to) ==
  [Emit(st, anchor, "copy_addr", Ty("void"), "none", <<to, from>>, "take", 1)
     EXCEPT !.phiMoves = @ \cup {st.nextId}]

createPhiMove(st, anchor, from, to) ==
  [Emit(st, anchor, "copy_addr", Ty("void"), "none", <<from, to>>, "take", 1)
     EXCEPT !.phiMoves = @ \cup {st.nextId}]

\* materializeOperand that releases the temporary at the position of the
\* move into it.
materializeOperandEarlyRelease(f, st, br, k) ==
  LET oper == InstOf(st.code, br).ops[k]
      phi == PhiOf(st, br, k)
      operStorage == GetStorage(st.vsm, oper)
      phiOperAddress == operStorage.storageAddress
      movePos == findPhiMovePosition(st, br, k)
      pa == recursivelyMaterializeStorage(f, st, movePos.latestMovePos,
                                          Ordinal(st.vsm, phi), TRUE)
      alloc == pa.st.nextId
      s1 == Emit(pa.st, movePos.latestMovePos, "alloc_stack",
                 AddrTy(st.bbargs[InstOf(st.code, br).n][k].ty), "none", <<>>, "", 0)
      s2 == createPhiMove(s1, movePos.latestMovePos, phiOperAddress, alloc)
      s3 == createPhiMove(s2, br, alloc, pa.v)
  IN IF isPhiProjection(operStorage)
        /\ operStorage.projectedStorageID = Ordinal(st.vsm, phi)
     THEN st
     ELSE IF phiOperAddress = 0 THEN Fatal(st)
     ELSE IF ~movePos.foundAntiDependenceCycle
     THEN createPhiMove(pa.st, movePos.latestMovePos, phiOperAddress, pa.v)
     ELSE Emit(s3, movePos.latestMovePos, "dealloc_stack", Ty("void"), "none", <<alloc>>, "", 0)

materializeOperand(f, st, br, k) ==
  LET oper == InstOf(st.code, br).ops[k]
      phi == PhiOf(st, br, k)
      operStorage == GetStorage(st.vsm, oper)
      phiOperAddress == operStorage.storageAddress
      movePos == findPhiMovePosition(st, br, k)
      pa == recursivelyMaterializeStorage(f, st, movePos.latestMovePos,
                                          Ordinal(st.vsm, phi), TRUE)
      alloc == pa.st.nextId
      s1 == Emit(pa.st, movePos.latestMovePos, "alloc_stack",
                 AddrTy(st.bbargs[InstOf(st.code, br).n][k].ty), "none", <<>>, "", 0)
      s2 == createPhiMove(s1, movePos.latestMovePos, phiOperAddress, alloc)
      s3 == createPhiMove(s2, br, alloc, pa.v)
  IN IF isPhiProjection(operStorage)
        /\ operStorage.projectedStorageID = Ordinal(st.vsm, phi)
     THEN st
     ELSE IF phiOperAddress = 0 THEN Fatal(st)
     ELSE IF ~movePos.foundAntiDependenceCycle
     THEN createPhiMove(pa.st, movePos.latestMovePos, phiOperAddress, pa.v)
     ELSE Emit(s3, br, "dealloc_stack", Ty("void"), "none", <<alloc>>, "", 0)

\* Operand::set.
SetOperand(st, user, k, v) ==
  [st EXCEPT !.code[PosOf(st.code, user)].ops[k] = v]

\* UseRewriter::visitBranchInst.
visitBranchInst(f, st, br, k) ==
  SetOperand(materializeOperand(f, st, br, k), br, k, Undef)

----------------------------------------------------------------------------
(* Storage locations: the base allocation or argument and the field path.  *)

RECURSIVE Loc(_, _)
Loc(c, a) ==
  IF HasInst(c, a) /\ InstOf(c, a).kind \in AddrProjections
  THEN Append(Loc(c, InstOf(c, a).ops[1]), InstOf(c, a).n)
  ELSE <<a>>

\* The location a table entry denotes, from the projection fields alone.
RECURSIVE StorageLoc(_, _, _)
StorageLoc(c, m, i) ==
  IF isComposingUseProjection(m[i])
  THEN IF HasInst(c, m[m[i].projectedStorageID].value)
       THEN Append(StorageLoc(c, m, m[i].projectedStorageID), m[i].projectedOperandNum)
       ELSE StorageLoc(c, m, m[i].projectedStorageID)
  ELSE IF isPhiProjection(m[i]) THEN StorageLoc(c, m, m[i].projectedStorageID)
  ELSE <<m[i].storageAddress>>

NoEvent == [oper |-> 0, phi |-> 0, coalesced |-> FALSE, cycle |-> FALSE, new |-> <<>>,
            from |-> <<>>, to |-> <<>>]

\* What one materializeOperand call did: the instructions it added.
PhiEvent(st, st2, br, k) ==
  LET oper == InstOf(st.code, br).ops[k]
      phi == PhiOf(st, br, k)
      os == GetStorage(st.vsm, oper)
  IN [oper |-> oper, phi |-> phi,
      coalesced |-> isPhiProjection(os) /\ os.projectedStorageID = Ordinal(st.vsm, phi),
      cycle |-> findPhiMovePosition(st, br, k).foundAntiDependenceCycle,
      new |-> SelectSeq(st2.code, LAMBDA i : i.id >= st.nextId),
      from |-> Loc(st.code, os.storageAddress),
      to |-> StorageLoc(st.code, st.vsm, Ordinal(st.vsm, phi))]

----------------------------------------------------------------------------
(* The edge model: a merge block with n phis M_1..M_n reached from two      *)
(* predecessors.  The first passes A_1..A_n, each coalesced with its phi;   *)
(* the second passes asg[i] = j for A_j, or 0 for a value X_i of its own.   *)
(* The state is the one the pass is in when the second predecessor's       *)
(* branch operands are about to be rewritten.                               *)

PhiId(i) == 10 + i
AId(i) == 20 + i
XId(i) == 30 + i
MAlloc(i) == 40 + i
XAlloc(i) == 50 + i
ASea(i) == 60 + i
\* Value ids of the edge model's fixed instructions and the first fresh id.
Id ==
  [RetArg |-> 1, CondBr |-> 2, Br1 |-> 3, Br2 |-> 4, StructS |-> 5, Ret |-> 6,
   FirstFresh |-> 100]

Asg(n) ==
  {a \in [1..n -> 0..n] : \A i, j \in 1..n : (i # j /\ a[i] # 0) => a[i] # a[j]}

PhiOperand2(a, i) == IF a[i] = 0 THEN XId(i) ELSE AId(a[i])

SeqOf(n, F(_)) == [i \in 1..n |-> F(i)]
Keep(s, P(_)) == SelectSeq(s, P)

PhiCode(n, proj, a) ==
  LET T == Ty("T")
      allocM == IF proj THEN <<>>
                ELSE SeqOf(n, LAMBDA i : Inst(MAlloc(i), "alloc_stack", AddrTy(T), "none", <<>>, 1, "", 0))
      allocX == SelectSeq(SeqOf(n, LAMBDA i : Inst(XAlloc(i), "alloc_stack", AddrTy(T), "none", <<>>, 1, "", i)),
                          LAMBDA x : a[x.n] = 0)
      seaA == IF proj
              THEN SeqOf(n, LAMBDA i : Inst(ASea(i), "struct_element_addr", AddrTy(T), "none", <<Id.RetArg>>, 1, "", i - 1))
              ELSE <<>>
      defA == SeqOf(n, LAMBDA i : Inst(AId(i), "apply", T, "owned", <<>>, 1, "", 0))
      defX == SelectSeq(SeqOf(n, LAMBDA i : Inst(XId(i), "apply", T, "owned", <<>>, 3, "", i)),
                        LAMBDA x : a[x.n] = 0)
      tail == IF proj
              THEN <<Inst(Id.StructS, "struct", Ty("S"), "owned", SeqOf(n, PhiId), 4, "", 0),
                     Inst(Id.Ret, "return", Ty("void"), "none", <<Id.StructS>>, 4, "", 0)>>
              ELSE <<Inst(Id.Ret, "return", Ty("void"), "none", <<>>, 4, "", 0)>>
  IN allocM \o allocX \o seaA \o defA
       \o <<Inst(Id.CondBr, "cond_br", Ty("void"), "none", <<>>, 1, "", 0),
            Inst(Id.Br1, "br", Ty("void"), "none", SeqOf(n, LAMBDA i : Undef), 2, "", 4)>>
       \o defX
       \o <<Inst(Id.Br2, "br", Ty("void"), "none", SeqOf(n, LAMBDA i : PhiOperand2(a, i)), 3, "", 4)>>
       \o tail

\* Table order: the indirect result argument, A_1..A_n, the X_i, M_1..M_n, S.
PhiTable(n, proj, a) ==
  LET pre == IF proj THEN 1 ELSE 0
      xs == SelectSeq(SeqOf(n, LAMBDA i : i), LAMBDA i : a[i] = 0)
      ordM(i) == pre + n + Len(xs) + i
      ordS == pre + n + Len(xs) + n + 1
      r == IF proj THEN <<[Entry(Id.RetArg, Id.RetArg) EXCEPT !.isRewritten = TRUE]>> ELSE <<>>
      as == SeqOf(n, LAMBDA i :
              [Entry(AId(i), IF proj THEN ASea(i) ELSE MAlloc(i))
                 EXCEPT !.isUseProjection = TRUE, !.projectedStorageID = ordM(i),
                        !.isRewritten = TRUE])
      xe == SeqOf(Len(xs), LAMBDA j : [Entry(XId(xs[j]), XAlloc(xs[j])) EXCEPT !.isRewritten = TRUE])
      ms == SeqOf(n, LAMBDA i :
              IF proj
              THEN [Entry(PhiId(i), 0)
                      EXCEPT !.isUseProjection = TRUE, !.projectedStorageID = ordS,
                             !.projectedOperandNum = i - 1]
              ELSE Entry(PhiId(i), MAlloc(i)))
      se == IF proj
            THEN <<[Entry(Id.StructS, 0)
                      EXCEPT !.isUseProjection = TRUE, !.projectedStorageID = 1,
                             !.projectedOperandNum = 0]>>
            ELSE <<>>
  IN r \o as \o xe \o ms \o se

PhiArgs(n, proj) ==
  <<IF proj THEN <<[id |-> Id.RetArg, ty |-> AddrTy(Ty("S")), own |-> "none"]>> ELSE <<>>,
    <<>>, <<>>,
    SeqOf(n, LAMBDA i : [id |-> PhiId(i), ty |-> Ty("T"), own |-> "owned"])>>

\* Memory at the start of the second predecessor's edge code: every value
\* passed on the edge sits in its storage, everything else is uninitialised
\* (0).  Contents are named by the value they belong to.
PhiMem(n, proj, a) ==
  LET c == PhiCode(n, proj, a)
      m == PhiTable(n, proj, a)
      passed == {PhiOperand2(a, i) : i \in 1..n}
      locs == {StorageLoc(c, m, i) : i \in DOMAIN m}
      holder(l) == {m[i].value : i \in {j \in DOMAIN m : StorageLoc(c, m, j) = l}} \cap passed
  IN [l \in locs |-> IF holder(l) = {} THEN 0 ELSE CHOOSE v \in holder(l) : TRUE]

\* Executing the instructions of a block from position p with memory m.
\* copy_addr [take] moves the contents and leaves the source uninitialised.
RECURSIVE ExecBlock(_, _, _)
ExecBlock(c, p, m) ==
  LET i == c[p]
      src == Loc(c, i.ops[1])
      dst == Loc(c, i.ops[2])
  IN IF i.kind \in Terminators THEN m
     ELSE IF i.kind = "alloc_stack"
     THEN ExecBlock(c, p + 1, [l \in DOMAIN m \cup {<<i.id>>} |-> IF l = <<i.id>> THEN 0 ELSE m[l]])
     ELSE IF i.kind = "copy_addr"
     THEN ExecBlock(c, p + 1,
            [l \in DOMAIN m \cup {dst} |->
               IF l = dst THEN m[src]
               ELSE IF l = src /\ i.q = "take" THEN 0 ELSE m[l]])
     ELSE ExecBlock(c, p + 1, m)

InitPhi ==
  \E n \in 2..MaxPhis, proj \in BOOLEAN :
    \E a \in Asg(n) :
      /\ fn = [kind |-> "edge", n |-> n, proj |-> proj, asg |-> a,
               numDirectResults |-> 0]
      /\ code = PhiCode(n, proj, a)
      /\ bbargs = PhiArgs(n, proj)
      /\ vsm = PhiTable(n, proj, a)
      /\ phiMoves = {}
      /\ nextId = Id.FirstFresh
      /\ pc = "rewrite"
      /\ idx = 0
      /\ todo = {<<Id.Br2, k - 1>> : k \in 1..n}
      /\ log = <<>>
      /\ ev = NoEvent
      /\ mem = PhiMem(n, proj, a)
      /\ indirectApplies = <<>>
      /\ silModule = NoModule

\* UseRewriter::rewriteUse on one operand of the second predecessor's branch.
RewritePhiOperand ==
  /\ pc = "rewrite"
  /\ \E u \in todo :
       LET st2 == visitBranchInst(fn, St, u[1], u[2] + 1)
       IN /\ code' = st2.code
          /\ vsm' = st2.vsm
          /\ phiMoves' = st2.phiMoves
          /\ nextId' = st2.nextId
          /\ ev' = PhiEvent(St, st2, u[1], u[2] + 1)
          /\ todo' = todo \ {u}
          /\ pc' = IF st2.fatal THEN "abort" ELSE pc
  /\ UNCHANGED <<silModule, fn, bbargs, idx, log, mem, indirectApplies>>

\* Control takes the rewritten edge: the predecessor's code runs.
TakeEdge ==
  /\ pc = "rewrite"
  /\ todo = {}
  /\ mem' = ExecBlock(code, BlockBegin(code, 3), mem)
  /\ pc' = "taken"
  /\ UNCHANGED <<silModule, fn, code, bbargs, vsm, phiMoves, nextId, idx, todo, log, ev, indirectApplies>>

NextPhi == RewritePhiOperand \/ TakeEdge

SpecPhi == InitPhi /\ [][NextPhi]_vars

\* The phi storages hold exactly what a simultaneous assignment leaves.
ParallelAssignment ==
  \A i \in 1..fn.n :
    mem[StorageLoc(code, vsm, Ordinal(vsm, PhiId(i)))] = PhiOperand2(fn.asg, i)

----------------------------------------------------------------------------
(* Properties of the edge model.                                           *)

\* The instructions the pass added to the second predecessor block.
EdgeCode == SelectSeq(code, LAMBDA i : i.blk = 3 /\ i.id >= Id.FirstFresh)
EdgeMoves == SelectSeq(EdgeCode, LAMBDA i : i.kind \in {"alloc_stack", "copy_addr", "dealloc_stack"})

\* C2: whatever the order of the materializeOperand calls for one edge,
\* running the emitted moves in instruction order leaves every phi storage
\* with the content its operand's storage held before the first move.
C2_ParallelMoves == (fn.kind = "edge" /\ pc = "taken") => ParallelAssignment

\* C3: a branch operand coalesced with its phi gets no move; any other
\* operand, when no anti-dependence cycle is detected, gets exactly one move
\* from the operand's storage to the phi's storage, on the predecessor edge.
C3_OneMovePerOperand ==
  (fn.kind = "edge" /\ ev.oper # 0) =>
    LET moves == SelectSeq(ev.new, LAMBDA i : i.kind = "copy_addr")
    IN /\ ev.coalesced => ev.new = <<>>
       /\ (~ev.coalesced /\ ~ev.cycle) =>
            /\ Len(moves) = 1
            /\ moves[1].q = "take"
            /\ moves[1].blk = 3
            /\ Loc(code, moves[1].ops[1]) = ev.from
            /\ Loc(code, moves[1].ops[2]) = ev.to
            /\ \A i \in DOMAIN ev.new : ev.new[i].kind \in {"copy_addr"} \cup AddrProjections

\* C3 witness: a coalesced operand was rewritten without a move and the
\* last call emitted one move for an operand that is not coalesced.
C3_Witness ==
  /\ fn.kind = "edge"
  /\ ev.oper # 0 /\ ~ev.coalesced /\ ~ev.cycle
  /\ Len(ev.new) >= 1
  /\ \E k \in 1..fn.n : fn.asg[k] = k /\ <<Id.Br2, k - 1>> \notin todo

\* The phi-swap configuration: the second predecessor passes (B, A) where the
\* first passes (A, B); any further phi gets its own coalesced operand.
IsSwap ==
  /\ fn.kind = "edge"
  /\ fn.asg[1] = 2 /\ fn.asg[2] = 1
  /\ \A k \in 3..fn.n : fn.asg[k] = k

\* C4: for the phi swap the edge gets exactly three moves, one temporary
\* allocation and one release, in the order allocate, move into the
\* temporary, direct move, move out of the temporary, release; afterwards
\* M0's storage holds B's content and M1's storage holds A's.
C4_SwapThroughTemporary ==
  (IsSwap /\ todo = {}) =>
    /\ Len(EdgeMoves) = 5
    /\ [i \in 1..5 |-> EdgeMoves[i].kind]
         = <<"alloc_stack", "copy_addr", "copy_addr", "copy_addr", "dealloc_stack">>
    /\ LET temp == EdgeMoves[1].id
       IN /\ EdgeMoves[2].ops[2] = temp /\ EdgeMoves[2].ops[1] # temp
          /\ temp \notin Range(EdgeMoves[3].ops)
          /\ EdgeMoves[4].ops[1] = temp /\ EdgeMoves[4].ops[2] # temp
          /\ EdgeMoves[5].ops = <<temp>>
          /\ \A i \in 2..4 : EdgeMoves[i].q = "take"
    /\ pc = "taken" =>
         /\ mem[StorageLoc(code, vsm, Ordinal(vsm, PhiId(1)))] = AId(2)
         /\ mem[StorageLoc(code, vsm, Ordinal(vsm, PhiId(2)))] = AId(1)

\* C4 witness: the swap edge has been rewritten and taken.
C4_Witness == IsSwap /\ pc = "taken" /\ Len(EdgeMoves) = 5

\* The temporary of the last materializeOperand call and its release.
CycleTemp == (CHOOSE k \in DOMAIN ev.new : ev.new[k].kind = "alloc_stack")
CycleCall == fn.kind = "edge" /\ ev.oper # 0 /\ ~ev.coalesced /\ ev.cycle /\ pc # "abort"
ReleaseOf(c, temp) == CHOOSE p \in DOMAIN c : c[p].kind = "dealloc_stack" /\ c[p].ops = <<temp>>

\* C21 as claimed: the temporary allocated for an anti-dependence cycle is
\* released immediately after the branch of the predecessor edge.
C21_TempReleasedAfterBranch ==
  CycleCall =>
    /\ \E p \in DOMAIN code : code[p].kind = "dealloc_stack" /\ code[p].ops = <<ev.new[CycleTemp].id>>
    /\ ReleaseOf(code, ev.new[CycleTemp].id) = PosOf(code, Id.Br2) + 1

\* C21: when materializeOperand has detected an anti-dependence cycle, the
\* temporary it allocated is released exactly once, by the instruction
\* immediately before the branch of the predecessor edge, which immediately
\* follows the move out of the temporary into the phi's storage.
C21_TempReleasedBeforeBranch ==
  CycleCall =>
    LET temp == ev.new[CycleTemp].id
        p == ReleaseOf(code, temp)
    IN /\ Cardinality({q \in DOMAIN code : code[q].kind = "dealloc_stack"
                                             /\ code[q].ops = <<temp>>}) = 1
       /\ p + 1 = PosOf(code, Id.Br2)
       /\ code[p - 1].kind = "copy_addr"
       /\ code[p - 1].ops[1] = temp
       /\ code[p - 1].id \in phiMoves
       /\ code[p - 1].blk = code[p].blk

\* A cycle was detected and the temporary, its two moves and its release
\* are on the edge.
C21_Witness ==
  /\ CycleCall
  /\ \E k \in DOMAIN ev.new : ev.new[k].kind = "dealloc_stack"
  /\ Len(SelectSeq(ev.new, LAMBDA i : i.kind = "copy_addr")) = 2

\* C19: while operands of the edge remain to be rewritten, the backward scan
\* of findPhiMovePosition from the branch visits every phi move emitted on
\* the edge so far.
C19_ScanReachesEveryMove ==
  (fn.kind = "edge" /\ pc = "rewrite" /\ todo # {}) =>
    phiMoves \subseteq ScannedMoves(code, PosOf(code, Id.Br2), phiMoves)

----------------------------------------------------------------------------
(* The functions the pass is run on.  T is an address-only type, S a       *)
(* struct of two T, E an enum with a T payload, C a class (loadable, not   *)
(* trivial), Int a trivial type.  Each function has at most one result.    *)

\* Callee conventions: per parameter whether it is formally indirect and
\* owned, and whether the result is formally indirect.
Callee(q) ==
  CASE q = "g" -> [params |-> <<>>, indirectResult |-> TRUE]
    [] q = "use" -> [params |-> <<[indirect |-> TRUE, owned |-> TRUE]>>, indirectResult |-> FALSE]
    [] q = "gL" -> [params |-> <<>>, indirectResult |-> TRUE]
    [] q = "useL" -> [params |-> <<[indirect |-> TRUE, owned |-> TRUE]>>, indirectResult |-> FALSE]
    [] q = "useC" -> [params |-> <<[indirect |-> FALSE, owned |-> TRUE]>>, indirectResult |-> FALSE]
    [] q = "hC" -> [params |-> <<>>, indirectResult |-> FALSE]
    [] q = "g2" -> [params |-> <<>>, indirectResult |-> TRUE]
    [] OTHER -> [params |-> <<[indirect |-> FALSE, owned |-> FALSE]>>, indirectResult |-> FALSE]

\* The number of direct results in the callee's opaque-value convention.
NumDirectResults(q) == IF q = "g2" THEN 2 ELSE 1

Arg(id, ty, own) == [id |-> id, ty |-> ty, own |-> own]
Param(formalIndirect, consumed) == [formalIndirect |-> formalIndirect, consumed |-> consumed]
Result(ty, formalIndirect) == [ty |-> ty, formalIndirect |-> formalIndirect]
Void == Ty("void")
TT == Ty("T")

Fn(name, c, args, params, results, succ) ==
  [kind |-> name, code |-> c, args |-> args, params |-> params, results |-> results,
   succ |-> succ, numDirectResults |-> Len(results)]

\* Scenario A: a struct of two call results, returned indirectly.
StructRet ==
  Fn("structRet",
     <<Inst(11, "apply", TT, "owned", <<>>, 1, "g", 0),
       Inst(12, "apply", TT, "owned", <<>>, 1, "g", 0),
       Inst(13, "struct", Ty("S"), "owned", <<11, 12>>, 1, "", 0),
       Inst(14, "return", Void, "none", <<13>>, 1, "", 0)>>,
     <<<<>>>>, <<>>, <<Result(Ty("S"), TRUE)>>, <<<<>>>>)

\* The struct is stored to memory instead; one value is also inspected.
StructStore ==
  Fn("structStore",
     <<Inst(11, "apply", TT, "owned", <<>>, 1, "g", 0),
       Inst(12, "apply", TT, "owned", <<>>, 1, "g", 0),
       Inst(17, "value_metatype", Ty("Meta"), "none", <<11>>, 1, "", 0),
       Inst(13, "struct", Ty("S"), "owned", <<11, 12>>, 1, "", 0),
       Inst(15, "store", Void, "none", <<13, 1>>, 1, "init", 0),
       Inst(16, "tuple", Void, "none", <<>>, 1, "", 0),
       Inst(14, "return", Void, "none", <<16>>, 1, "", 0)>>,
     <<<<Arg(1, AddrTy(Ty("S")), "none")>>>>, <<Param(TRUE, FALSE)>>,
     <<Result(Void, FALSE)>>, <<<<>>>>)

\* The struct is built from the function's own opaque parameters.
StructArgs ==
  Fn("structArgs",
     <<Inst(13, "struct", Ty("S"), "owned", <<1, 2>>, 1, "", 0),
       Inst(15, "store", Void, "none", <<13, 3>>, 1, "init", 0),
       Inst(16, "tuple", Void, "none", <<>>, 1, "", 0),
       Inst(14, "return", Void, "none", <<16>>, 1, "", 0)>>,
     <<<<Arg(1, TT, "owned"), Arg(2, TT, "owned"), Arg(3, AddrTy(Ty("S")), "none")>>>>,
     <<Param(TRUE, TRUE), Param(TRUE, TRUE), Param(TRUE, FALSE)>>,
     <<Result(Void, FALSE)>>, <<<<>>>>)

\* Scenario C: two phis whose operands are swapped on the second edge.
Swap ==
  Fn("swap",
     <<Inst(11, "apply", TT, "owned", <<>>, 1, "g", 0),
       Inst(12, "apply", TT, "owned", <<>>, 1, "g", 0),
       Inst(2, "cond_br", Void, "none", <<>>, 1, "", 0),
       Inst(3, "br", Void, "none", <<11, 12>>, 2, "", 4),
       Inst(4, "br", Void, "none", <<12, 11>>, 3, "", 4),
       Inst(31, "apply", Void, "none", <<21>>, 4, "use", 0),
       Inst(32, "apply", Void, "none", <<22>>, 4, "use", 0),
       Inst(16, "tuple", Void, "none", <<>>, 4, "", 0),
       Inst(14, "return", Void, "none", <<16>>, 4, "", 0)>>,
     <<<<>>, <<>>, <<>>, <<Arg(21, TT, "owned"), Arg(22, TT, "owned")>>>>, <<>>,
     <<Result(Void, FALSE)>>, <<<<2, 3>>, <<4>>, <<4>>, <<>>>>)

\* Scenario B: one phi; the first predecessor reads X again before it
\* branches, the second passes a value that is dead after the branch.
Diamond ==
  Fn("diamond",
     <<Inst(2, "cond_br", Void, "none", <<>>, 1, "", 0),
       Inst(11, "apply", TT, "owned", <<>>, 2, "g", 0),
       Inst(17, "value_metatype", Ty("Meta"), "none", <<11>>, 2, "", 0),
       Inst(3, "br", Void, "none", <<11>>, 2, "", 4),
       Inst(12, "apply", TT, "owned", <<>>, 3, "g", 0),
       Inst(4, "br", Void, "none", <<12>>, 3, "", 4),
       Inst(13, "return", Void, "none", <<21>>, 4, "", 0)>>,
     <<<<>>, <<>>, <<>>, <<Arg(21, TT, "owned")>>>>, <<>>,
     <<Result(TT, TRUE)>>, <<<<2, 3>>, <<4>>, <<4>>, <<>>>>)

\* A phi wrapped in a struct that is returned: the phi's storage is a field
\* of the struct's, which is the indirect result.
PhiStruct ==
  Fn("phiStruct",
     <<Inst(2, "cond_br", Void, "none", <<>>, 1, "", 0),
       Inst(11, "apply", TT, "owned", <<>>, 2, "g", 0),
       Inst(17, "value_metatype", Ty("Meta"), "none", <<11>>, 2, "", 0),
       Inst(3, "br", Void, "none", <<11>>, 2, "", 4),
       Inst(12, "apply", TT, "owned", <<>>, 3, "g", 0),
       Inst(4, "br", Void, "none", <<12>>, 3, "", 4),
       Inst(18, "struct", Ty("S"), "owned", <<21>>, 4, "", 0),
       Inst(13, "return", Void, "none", <<18>>, 4, "", 0)>>,
     <<<<>>, <<>>, <<>>, <<Arg(21, TT, "owned")>>>>, <<>>,
     <<Result(Ty("S"), TRUE)>>, <<<<2, 3>>, <<4>>, <<4>>, <<>>>>)

\* A call result that is borrowed and then wrapped in the returned struct.
BorrowWrap ==
  Fn("borrowWrap",
     <<Inst(11, "apply", TT, "owned", <<>>, 1, "g", 0),
       Inst(12, "begin_borrow", TT, "guaranteed", <<11>>, 1, "", 0),
       Inst(17, "value_metatype", Ty("Meta"), "none", <<12>>, 1, "", 0),
       Inst(18, "end_borrow", Void, "none", <<12>>, 1, "", 0),
       Inst(13, "struct", Ty("S"), "owned", <<11>>, 1, "", 0),
       Inst(14, "return", Void, "none", <<13>>, 1, "", 0)>>,
     <<<<>>>>, <<>>, <<Result(Ty("S"), TRUE)>>, <<<<>>>>)

\* A copy that is inspected and then assigned to memory.
Assigns ==
  Fn("assigns",
     <<Inst(11, "apply", TT, "owned", <<>>, 1, "g", 0),
       Inst(12, "copy_value", TT, "owned", <<11>>, 1, "", 0),
       Inst(17, "value_metatype", Ty("Meta"), "none", <<12>>, 1, "", 0),
       Inst(13, "store", Void, "none", <<12, 1>>, 1, "assign", 0),
       Inst(19, "destroy_value", Void, "none", <<11>>, 1, "", 0),
       Inst(16, "tuple", Void, "none", <<>>, 1, "", 0),
       Inst(14, "return", Void, "none", <<16>>, 1, "", 0)>>,
     <<<<Arg(1, AddrTy(TT), "none")>>>>, <<Param(TRUE, FALSE)>>,
     <<Result(Void, FALSE)>>, <<<<>>>>)

\* A phi wrapped in a struct that is stored: the struct has an allocation of
\* its own, which the phi could project into.
PhiStored ==
  Fn("phiStored",
     <<Inst(2, "cond_br", Void, "none", <<>>, 1, "", 0),
       Inst(11, "apply", TT, "owned", <<>>, 2, "g", 0),
       Inst(17, "value_metatype", Ty("Meta"), "none", <<11>>, 2, "", 0),
       Inst(3, "br", Void, "none", <<11>>, 2, "", 4),
       Inst(12, "apply", TT, "owned", <<>>, 3, "g", 0),
       Inst(4, "br", Void, "none", <<12>>, 3, "", 4),
       Inst(18, "struct", Ty("S"), "owned", <<21>>, 4, "", 0),
       Inst(15, "store", Void, "none", <<18, 1>>, 4, "init", 0),
       Inst(16, "tuple", Void, "none", <<>>, 4, "", 0),
       Inst(13, "return", Void, "none", <<16>>, 4, "", 0)>>,
     <<<<Arg(1, AddrTy(Ty("S")), "none")>>, <<>>, <<>>, <<Arg(21, TT, "owned")>>>>,
     <<Param(TRUE, FALSE)>>, <<Result(Void, FALSE)>>, <<<<2, 3>>, <<4>>, <<4>>, <<>>>>)

\* An existential from a call, borrowed and opened; X is an address-only
\* existential type.
OpenExistential ==
  Fn("openExistential",
     <<Inst(11, "apply", Ty("X"), "owned", <<>>, 1, "g", 0),
       Inst(12, "begin_borrow", Ty("X"), "guaranteed", <<11>>, 1, "", 0),
       Inst(13, "open_existential_value", TT, "guaranteed", <<12>>, 1, "", 0),
       Inst(17, "value_metatype", Ty("Meta"), "none", <<13>>, 1, "", 0),
       Inst(18, "end_borrow", Void, "none", <<12>>, 1, "", 0),
       Inst(19, "destroy_value", Void, "none", <<11>>, 1, "", 0),
       Inst(16, "tuple", Void, "none", <<>>, 1, "", 0),
       Inst(14, "return", Void, "none", <<16>>, 1, "", 0)>>,
     <<<<>>>>, <<>>, <<Result(Void, FALSE)>>, <<<<>>>>)

\* An opaque phi cast to a class.
CastPhi ==
  Fn("castPhi",
     <<Inst(2, "cond_br", Void, "none", <<>>, 1, "", 0),
       Inst(11, "apply", TT, "owned", <<>>, 2, "g", 0),
       Inst(3, "br", Void, "none", <<11>>, 2, "", 4),
       Inst(12, "apply", TT, "owned", <<>>, 3, "g", 0),
       Inst(4, "br", Void, "none", <<12>>, 3, "", 4),
       Inst(31, "unconditional_checked_cast", Ty("C"), "owned", <<21>>, 4, "", 0),
       Inst(14, "return", Void, "none", <<31>>, 4, "", 0)>>,
     <<<<>>, <<>>, <<>>, <<Arg(21, TT, "owned")>>>>, <<>>,
     <<Result(Ty("C"), FALSE)>>, <<<<2, 3>>, <<4>>, <<4>>, <<>>>>)

\* A call result cast to a class, and a class cast to an opaque type.
Cast ==
  Fn("cast",
     <<Inst(11, "apply", TT, "owned", <<>>, 1, "g", 0),
       Inst(12, "unconditional_checked_cast", Ty("C"), "owned", <<11>>, 1, "", 0),
       Inst(13, "unconditional_checked_cast", TT, "owned", <<12>>, 1, "", 0),
       Inst(15, "apply", Void, "none", <<13>>, 1, "use", 0),
       Inst(16, "tuple", Void, "none", <<>>, 1, "", 0),
       Inst(14, "return", Void, "none", <<16>>, 1, "", 0)>>,
     <<<<>>>>, <<>>, <<Result(Void, FALSE)>>, <<<<>>>>)

\* Explicit copies: load [copy], a copy folded into its store, a plain copy.
Copies ==
  Fn("copies",
     <<Inst(11, "load", TT, "owned", <<1>>, 1, "copy", 0),
       Inst(12, "copy_value", TT, "owned", <<11>>, 1, "", 0),
       Inst(13, "store", Void, "none", <<12, 2>>, 1, "init", 0),
       Inst(18, "copy_value", TT, "owned", <<11>>, 1, "", 0),
       Inst(15, "apply", Void, "none", <<18>>, 1, "use", 0),
       Inst(19, "destroy_value", Void, "none", <<11>>, 1, "", 0),
       Inst(16, "tuple", Void, "none", <<>>, 1, "", 0),
       Inst(14, "return", Void, "none", <<16>>, 1, "", 0)>>,
     <<<<Arg(1, AddrTy(TT), "none"), Arg(2, AddrTy(TT), "none")>>>>,
     <<Param(TRUE, FALSE), Param(TRUE, FALSE)>>, <<Result(Void, FALSE)>>, <<<<>>>>)

\* An enum built from a call result and taken apart again; the payload is
\* returned.
EnumData ==
  Fn("enumData",
     <<Inst(11, "apply", TT, "owned", <<>>, 1, "g", 0),
       Inst(12, "enum", Ty("E"), "owned", <<11>>, 1, "", 1),
       Inst(13, "unchecked_enum_data", TT, "owned", <<12>>, 1, "", 1),
       Inst(14, "return", Void, "none", <<13>>, 1, "", 0)>>,
     <<<<>>>>, <<>>, <<Result(TT, TRUE)>>, <<<<>>>>)

\* An enum from a call, switched over; the payload of the case is passed on.
SwitchEnum ==
  Fn("switchEnum",
     <<Inst(11, "apply", Ty("E"), "owned", <<>>, 1, "g", 0),
       Inst(2, "switch_enum", Void, "none", <<11>>, 1, "", 2),
       Inst(15, "apply", Void, "none", <<21>>, 2, "use", 0),
       Inst(16, "tuple", Void, "none", <<>>, 2, "", 0),
       Inst(14, "return", Void, "none", <<16>>, 2, "", 0)>>,
     <<<<>>, <<Arg(21, TT, "owned")>>>>, <<>>, <<Result(Void, FALSE)>>, <<<<2>>, <<>>>>)

\* A struct of two call results inside a tuple, stored to memory.
Nested ==
  Fn("nested",
     <<Inst(11, "apply", TT, "owned", <<>>, 1, "g", 0),
       Inst(12, "apply", TT, "owned", <<>>, 1, "g", 0),
       Inst(13, "struct", Ty("S"), "owned", <<11, 12>>, 1, "", 0),
       Inst(18, "apply", TT, "owned", <<>>, 1, "g", 0),
       Inst(19, "tuple", Ty("P"), "owned", <<13, 18>>, 1, "", 0),
       Inst(15, "store", Void, "none", <<19, 1>>, 1, "init", 0),
       Inst(16, "tuple", Void, "none", <<>>, 1, "", 0),
       Inst(14, "return", Void, "none", <<16>>, 1, "", 0)>>,
     <<<<Arg(1, AddrTy(Ty("P")), "none")>>>>, <<Param(TRUE, FALSE)>>,
     <<Result(Void, FALSE)>>, <<<<>>>>)

\* Two exits: a return and a throw.
Throwing ==
  Fn("throwing",
     <<Inst(11, "apply", TT, "owned", <<>>, 1, "g", 0),
       Inst(2, "cond_br", Void, "none", <<>>, 1, "", 0),
       Inst(15, "apply", Void, "none", <<11>>, 2, "use", 0),
       Inst(16, "tuple", Void, "none", <<>>, 2, "", 0),
       Inst(14, "return", Void, "none", <<16>>, 2, "", 0),
       Inst(19, "destroy_value", Void, "none", <<11>>, 3, "", 0),
       Inst(5, "throw", Void, "none", <<1>>, 3, "", 0)>>,
     <<<<Arg(1, Ty("C"), "owned")>>, <<>>, <<>>>>, <<Param(FALSE, TRUE)>>,
     <<Result(Void, FALSE)>>, <<<<2, 3>>, <<>>, <<>>>>)

\* No opaque value, but a formally indirect loadable parameter and result.
LoadableIndirect ==
  Fn("loadableIndirect",
     <<Inst(11, "apply", Ty("Int"), "none", <<1>>, 1, "h", 0),
       Inst(14, "return", Void, "none", <<11>>, 1, "", 0)>>,
     <<<<Arg(1, Ty("Int"), "none")>>>>, <<Param(TRUE, TRUE)>>,
     <<Result(Ty("Int"), TRUE)>>, <<<<>>>>)

\* No opaque value, but calls with formally indirect loadable argument and result.
LoadableCalls ==
  Fn("loadableCalls",
     <<Inst(11, "apply", Ty("Int"), "none", <<>>, 1, "gL", 0),
       Inst(12, "apply", Void, "none", <<11>>, 1, "useL", 0),
       Inst(16, "tuple", Void, "none", <<>>, 1, "", 0),
       Inst(14, "return", Void, "none", <<16>>, 1, "", 0)>>,
     <<<<>>>>, <<>>, <<Result(Void, FALSE)>>, <<<<>>>>)

\* No opaque value and nothing formally indirect.
Trivial ==
  Fn("trivial",
     <<Inst(11, "apply", Ty("Int"), "none", <<1>>, 1, "h", 0),
       Inst(2, "cond_br", Void, "none", <<>>, 1, "", 0),
       Inst(3, "br", Void, "none", <<11>>, 2, "", 4),
       Inst(4, "br", Void, "none", <<1>>, 3, "", 4),
       Inst(14, "return", Void, "none", <<21>>, 4, "", 0)>>,
     <<<<Arg(1, Ty("Int"), "none")>>, <<>>, <<>>, <<Arg(21, Ty("Int"), "none")>>>>,
     <<Param(FALSE, FALSE)>>, <<Result(Ty("Int"), FALSE)>>, <<<<2, 3>>, <<4>>, <<4>>, <<>>>>)

\* No opaque value, but a block that cannot be reached.
Unreachable ==
  Fn("unreachable",
     <<Inst(11, "apply", Ty("Int"), "none", <<1>>, 1, "h", 0),
       Inst(14, "return", Void, "none", <<11>>, 1, "", 0),
       Inst(12, "apply", Ty("Int"), "none", <<1>>, 2, "h", 0),
       Inst(3, "br", Void, "none", <<>>, 2, "", 2)>>,
     <<<<Arg(1, Ty("Int"), "none")>>, <<>>>>,
     <<Param(FALSE, FALSE)>>, <<Result(Ty("Int"), FALSE)>>, <<<<>>, <<2>>>>)

\* No opaque value, but two results returned in a tuple that has another use.
TupleRet ==
  Fn("tupleRet",
     <<Inst(11, "apply", Ty("C"), "owned", <<>>, 1, "hC", 0),
       Inst(12, "apply", Ty("C"), "owned", <<>>, 1, "hC", 0),
       Inst(13, "tuple", Ty("CC"), "owned", <<11, 12>>, 1, "", 0),
       Inst(17, "debug_value", Void, "none", <<13>>, 1, "", 0),
       Inst(14, "return", Void, "none", <<13>>, 1, "", 0)>>,
     <<<<>>>>, <<>>, <<Result(Ty("C"), FALSE), Result(Ty("C"), FALSE)>>, <<<<>>>>)

\* Two opaque results, returned in a tuple.
TwoResults ==
  Fn("twoResults",
     <<Inst(11, "apply", TT, "owned", <<>>, 1, "g", 0),
       Inst(12, "apply", TT, "owned", <<>>, 1, "g", 0),
       Inst(13, "tuple", Ty("P"), "owned", <<11, 12>>, 1, "", 0),
       Inst(14, "return", Void, "none", <<13>>, 1, "", 0)>>,
     <<<<>>>>, <<>>, <<Result(TT, TRUE), Result(TT, TRUE)>>, <<<<>>>>)

\* A borrow of an opaque value in memory.
Borrows ==
  Fn("borrows",
     <<Inst(11, "load_borrow", TT, "guaranteed", <<1>>, 1, "", 0),
       Inst(12, "value_metatype", Ty("Meta"), "none", <<11>>, 1, "", 0),
       Inst(13, "end_borrow", Void, "none", <<11>>, 1, "", 0),
       Inst(16, "tuple", Void, "none", <<>>, 1, "", 0),
       Inst(14, "return", Void, "none", <<16>>, 1, "", 0)>>,
     <<<<Arg(1, AddrTy(TT), "none")>>>>,
     <<Param(TRUE, FALSE)>>, <<Result(Void, FALSE)>>, <<<<>>>>)

\* A struct built from a borrowed value: a guaranteed opaque aggregate.
BorrowedStruct ==
  Fn("borrowedStruct",
     <<Inst(11, "apply", TT, "owned", <<>>, 1, "g", 0),
       Inst(12, "begin_borrow", TT, "guaranteed", <<11>>, 1, "", 0),
       Inst(13, "struct", Ty("S"), "guaranteed", <<12, 12>>, 1, "", 0),
       Inst(15, "value_metatype", Ty("Meta"), "none", <<13>>, 1, "", 0),
       Inst(17, "end_borrow", Void, "none", <<12>>, 1, "", 0),
       Inst(18, "destroy_value", Void, "none", <<11>>, 1, "", 0),
       Inst(16, "tuple", Void, "none", <<>>, 1, "", 0),
       Inst(14, "return", Void, "none", <<16>>, 1, "", 0)>>,
     <<<<>>>>, <<>>, <<Result(Void, FALSE)>>, <<<<>>>>)

\* A call with two opaque results, taken apart by a destructure_tuple.
PairCall ==
  Fn("pairCall",
     <<Inst(11, "apply", Ty("P"), "owned", <<>>, 1, "g2", 0),
       Inst(12, "destructure_tuple", Void, "none", <<11>>, 1, "", 0),
       Inst(13, "destructure_result", TT, "owned", <<12>>, 1, "", 0),
       Inst(17, "destructure_result", TT, "owned", <<12>>, 1, "", 1),
       Inst(15, "apply", Void, "none", <<13>>, 1, "use", 0),
       Inst(18, "apply", Void, "none", <<17>>, 1, "use", 0),
       Inst(16, "tuple", Void, "none", <<>>, 1, "", 0),
       Inst(14, "return", Void, "none", <<16>>, 1, "", 0)>>,
     <<<<>>>>, <<>>, <<Result(Void, FALSE)>>, <<<<>>>>)

\* The two opaque results of a call, returned in a tuple that has another use.
SharedPair ==
  Fn("sharedPair",
     <<Inst(11, "apply", Ty("P"), "owned", <<>>, 1, "g2", 0),
       Inst(12, "destructure_tuple", Void, "none", <<11>>, 1, "", 0),
       Inst(17, "destructure_result", TT, "owned", <<12>>, 1, "", 0),
       Inst(18, "destructure_result", TT, "owned", <<12>>, 1, "", 1),
       Inst(13, "tuple", Ty("P"), "owned", <<17, 18>>, 1, "", 0),
       Inst(15, "value_metatype", Ty("Meta"), "none", <<13>>, 1, "", 0),
       Inst(14, "return", Void, "none", <<13>>, 1, "", 0)>>,
     <<<<>>>>, <<>>, <<Result(TT, TRUE), Result(TT, TRUE)>>, <<<<>>>>)

\* An existential opened twice; a struct whose type depends on both opened
\* archetypes is built from copies of the two opened values.
Opened(structTy) ==
  Fn(IF structTy = "S12" THEN "opened12" ELSE "opened21",
     <<Inst(11, "apply", Ty("X"), "owned", <<>>, 1, "g", 0),
       Inst(12, "begin_borrow", Ty("X"), "guaranteed", <<11>>, 1, "", 0),
       Inst(13, "open_existential_value", Ty("O1"), "guaranteed", <<12>>, 1, "", 0),
       Inst(31, "copy_value", Ty("O1"), "owned", <<13>>, 1, "", 0),
       Inst(43, "open_existential_value", Ty("O2"), "guaranteed", <<12>>, 1, "", 0),
       Inst(33, "copy_value", Ty("O2"), "owned", <<43>>, 1, "", 0),
       Inst(32, "struct", Ty(structTy), "owned", <<31, 33>>, 1, "", 0),
       Inst(34, "destroy_value", Void, "none", <<32>>, 1, "", 0),
       Inst(18, "end_borrow", Void, "none", <<12>>, 1, "", 0),
       Inst(19, "destroy_value", Void, "none", <<11>>, 1, "", 0),
       Inst(16, "tuple", Void, "none", <<>>, 1, "", 0),
       Inst(14, "return", Void, "none", <<16>>, 1, "", 0)>>,
     <<<<>>>>, <<>>, <<Result(Void, FALSE)>>, <<<<>>>>)

\* A merge block with an opaque phi followed by a loadable one.
MixedPhi ==
  Fn("mixedPhi",
     <<Inst(2, "cond_br", Void, "none", <<>>, 1, "", 0),
       Inst(11, "apply", TT, "owned", <<>>, 2, "g", 0),
       Inst(31, "integer_literal", Ty("Int"), "none", <<>>, 2, "", 0),
       Inst(3, "br", Void, "none", <<11, 31>>, 2, "", 4),
       Inst(12, "apply", TT, "owned", <<>>, 3, "g", 0),
       Inst(32, "integer_literal", Ty("Int"), "none", <<>>, 3, "", 0),
       Inst(4, "br", Void, "none", <<12, 32>>, 3, "", 4),
       Inst(13, "return", Void, "none", <<21>>, 4, "", 0)>>,
     <<<<>>, <<>>, <<>>, <<Arg(21, TT, "owned"), Arg(22, Ty("Int"), "none")>>>>, <<>>,
     <<Result(TT, TRUE)>>, <<<<2, 3>>, <<4>>, <<4>>, <<>>>>)

Programs ==
  {StructRet, StructStore, StructArgs, Nested, Swap, Diamond, CastPhi, Cast, Copies,
   EnumData, Throwing, LoadableIndirect, LoadableCalls, Trivial, Unreachable, TupleRet,
   TwoResults, Borrows, BorrowedStruct, PairCall, SharedPair, SwitchEnum,
   PhiStruct, BorrowWrap, Assigns, PhiStored, OpenExistential,
   Opened("S12"), Opened("S21"), MixedPhi}

----------------------------------------------------------------------------
(* Step 1: prepareValueStorage.                                            *)

\* Left fold of Op(acc, element) over a sequence.
RECURSIVE FoldSeq(_, _, _, _)
FoldSeq(Op(_, _), acc, s, i) ==
  IF i > Len(s) THEN acc ELSE FoldSeq(Op, Op(acc, s[i]), s, i + 1)

\* The type of a value: an instruction result or a block argument.
AllArgs(st) == UNION {Range(st.bbargs[b]) : b \in DOMAIN st.bbargs}
IsArg(st, v) == \E a \in AllArgs(st) : a.id = v
ArgOf(st, v) == CHOOSE a \in AllArgs(st) : a.id = v
ValTy(st, v) ==
  IF HasInst(st.code, v) THEN InstOf(st.code, v).ty
  ELSE IF IsArg(st, v) THEN ArgOf(st, v).ty
  ELSE Void
ValOwn(st, v) ==
  IF HasInst(st.code, v) THEN InstOf(st.code, v).own
  ELSE IF IsArg(st, v) THEN ArgOf(st, v).own
  ELSE "none"
KindOf(st, v) == IF HasInst(st.code, v) THEN InstOf(st.code, v).kind ELSE "argument"
isPseudoCallResult(st, v) ==
  KindOf(st, v) = "apply" /\ NumDirectResults(InstOf(st.code, v).q) > 1

\* The destructure_tuple whose result the value is (its parent instruction).
DestructureOf(st, v) == InstOf(st.code, v).ops[1]

ArgBlock(st, v) == CHOOSE b \in DOMAIN st.bbargs : \E k \in DOMAIN st.bbargs[b] : st.bbargs[b][k].id = v

\* SILValue::replaceAllUsesWith.
ReplaceAllUsesWith(st, old, new) ==
  [st EXCEPT !.code = [i \in DOMAIN st.code |->
     [st.code[i] EXCEPT !.ops = [k \in DOMAIN st.code[i].ops |->
        IF st.code[i].ops[k] = old THEN new ELSE st.code[i].ops[k]]]]]

\* ValueStorage(storageAddress): a storage that is given its address when
\* it is created is already resolved.
ValueStorage(value, addr) == [Entry(value, addr) EXCEPT !.isRewritten = (addr # 0)]

insertValue(st, value, storageAddress) ==
  [st EXCEPT !.vsm = Append(@, ValueStorage(value, storageAddress))]

\* pass.exitingInsts: the return and throw terminators, in block order.
ExitingInsts(c) ==
  LET x == SelectSeq(c, LAMBDA i : i.kind \in {"return", "throw"})
  IN [k \in DOMAIN x |-> x[k].id]

\* createTrivialLoadOr.
TrivialLoadOr(ty, q) == IF isTrivial(ty) THEN "trivial" ELSE q
\* createTrivialStoreOr.
TrivialStoreOr(ty, q) == IF isTrivial(ty) THEN "trivial" ELSE q

convertDirectToIndirectFunctionArgs(f, st0) ==
  LET first == st0.code[1].id
      conv(st, k) ==
        LET arg == st.bbargs[1][k]
            load == st.nextId
            newArg == st.nextId + 1
            borrow == ~f.params[k].consumed /\ ~isTrivial(arg.ty)
            s1 == IF borrow
                  THEN Emit(st, first, "load_borrow", arg.ty, "guaranteed", <<Undef>>, "", 0)
                  ELSE Emit(st, first, "load", arg.ty, arg.own, <<Undef>>,
                            TrivialLoadOr(arg.ty, "take"), 0)
            s2 == IF f.params[k].consumed THEN s1
                  ELSE FoldSeq(LAMBDA a, t : Emit(a, t, "end_borrow", Void, "none", <<load>>, "", 0),
                               s1, ExitingInsts(s1.code), 1)
            s3 == ReplaceAllUsesWith(s2, arg.id, load)
            s4 == [s3 EXCEPT !.bbargs[1][k] = Arg(newArg, AddrTy(arg.ty), "none"),
                             !.nextId = @ + 1]
            s5 == SetOperand(s4, load, 1, newArg)
        IN IF f.params[k].formalIndirect /\ ~arg.ty.a
           THEN IF isAddressOnly(arg.ty) THEN insertValue(s5, load, newArg) ELSE s5
           ELSE st
  IN FoldSeq(conv, st0, [k \in DOMAIN st0.bbargs[1] |-> k], 1)

insertIndirectReturnArgs(f, st0) ==
  LET ind == SelectSeq(f.results, LAMBDA r : r.formalIndirect)
      ins(st, argIdx) ==
        LET funcArg == st.nextId
            s1 == [st EXCEPT !.bbargs[1] =
                     SubSeq(@, 1, argIdx - 1) \o <<Arg(funcArg, AddrTy(ind[argIdx].ty), "none")>>
                       \o SubSeq(@, argIdx, Len(@)),
                             !.nextId = @ + 1]
        IN insertValue(s1, funcArg, funcArg)
  IN FoldSeq(ins, st0, [k \in DOMAIN ind |-> k], 1)

\* The applied arguments whose callee convention is indirect.
checkForIndirectApply(st, apply) ==
  LET a == InstOf(st.code, apply)
      cc == Callee(a.q)
  IN IF (\E k \in DOMAIN a.ops : ~ValTy(st, a.ops[k]).a /\ cc.params[k].indirect)
        \/ cc.indirectResult
     THEN [st EXCEPT !.indirectApplies = Append(@, apply)]
     ELSE st

\* visitValue without the test of the value's type.
visitValueAnyType(st, value) ==
  IF Contains(st.vsm, value) THEN st ELSE insertValue(st, value, 0)

visitValue(st, value) ==
  IF ~isOpaqueObject(ValTy(st, value)) \/ Contains(st.vsm, value) THEN st
  ELSE insertValue(st, value, 0)

\* canonicalizeReturnValues.  The results of the destructure_tuple are the
\* instructions that follow it, one per element.
canonicalizeReturnValues(f, st0) ==
  LET canon(st, termInst) ==
        LET oldResult == InstOf(st.code, termInst).ops[1]
            destructure == st.nextId
            s1 == Emit(st, termInst, "destructure_tuple", Void, "none", <<oldResult>>, "", 0)
            s2 == FoldSeq(LAMBDA a, i :
                            visitValue(Emit(a, termInst, "destructure_result", f.results[i].ty,
                                            "owned", <<destructure>>, "", i - 1),
                                       a.nextId),
                          s1, [i \in DOMAIN f.results |-> i], 1)
            newResult == s2.nextId
            s3 == Emit(s2, termInst, "tuple", ValTy(st, oldResult), "owned",
                       [i \in DOMAIN f.results |-> destructure + i], "", 0)
        IN IF KindOf(st, termInst) # "return" THEN st
           ELSE IF ValOwn(st, oldResult) # "owned" THEN st
           ELSE IF Cardinality(Uses(st.code, oldResult)) = 1 THEN st
           ELSE SetOperand(s3, termInst, 1, newResult)
  IN IF f.numDirectResults < 2 THEN st0
     ELSE FoldSeq(canon, st0, ExitingInsts(st0.code), 1)

\* mapValueStorage that visits every instruction result, pseudo values too.
mapValueStorageAllResults(f, st0) ==
  LET visitInst(st, i) ==
        LET s0 == IF i.blk # 1 /\ PosOf(st.code, i.id) = BlockBegin(st.code, i.blk)
                  THEN FoldSeq(LAMBDA a, arg : visitValue(a, arg.id), st, st.bbargs[i.blk], 1)
                  ELSE st
            s1 == IF i.kind \in {"apply", "try_apply", "begin_apply"}
                  THEN checkForIndirectApply(s0, i.id) ELSE s0
        IN visitValue(s1, i.id)
  IN canonicalizeReturnValues(f, FoldSeq(visitInst, st0, st0.code, 1))

mapValueStorage(f, st0) ==
  LET visitInst(st, i) ==
        LET s0 == IF i.blk # 1 /\ PosOf(st.code, i.id) = BlockBegin(st.code, i.blk)
                  THEN FoldSeq(LAMBDA a, arg : visitValue(a, arg.id), st, st.bbargs[i.blk], 1)
                  ELSE st
            s1 == IF i.kind \in {"apply", "try_apply", "begin_apply"}
                  THEN checkForIndirectApply(s0, i.id) ELSE s0
        IN IF isPseudoCallResult(s1, i.id) \/ isPseudoReturnValue(f, s1.code, i.id) THEN s1
           ELSE visitValue(s1, i.id)
  IN canonicalizeReturnValues(f, FoldSeq(visitInst, st0, st0.code, 1))

\* removeUnreachableBlocks: the blocks no path from the entry reaches lose
\* their instructions and arguments.
RECURSIVE ReachableBlocks(_, _)
ReachableBlocks(succ, seen) ==
  LET more == seen \cup UNION {Range(succ[b]) : b \in seen}
  IN IF more = seen THEN seen ELSE ReachableBlocks(succ, more)

removeUnreachableBlocks(f, st) ==
  LET live == ReachableBlocks(f.succ, {1})
  IN [st EXCEPT !.code = SelectSeq(@, LAMBDA x : x.blk \in live),
                !.bbargs = [b \in DOMAIN @ |-> IF b \in live THEN @[b] ELSE <<>>]]

prepareValueStorage(f, st) ==
  mapValueStorage(f, insertIndirectReturnArgs(f, convertDirectToIndirectFunctionArgs(f, st)))

----------------------------------------------------------------------------
(* Step 2: OpaqueStorageAllocation.                                        *)

\* SILArgument::getTerminatorForResult: the switch_enum (or other terminator
\* with results) that enters the block of argument v, or 0.
getTerminatorForResult(st, v) ==
  LET b == ArgBlock(st, v)
      terms == {x \in Range(st.code) :
                  x.kind \in {"switch_enum", "checked_cast_br", "try_apply"} /\ x.n = b}
  IN IF ~IsArg(st, v) \/ b = 1 \/ terms = {} THEN 0 ELSE (CHOOSE x \in terms : TRUE).id

\* PhiValue: an argument of a block entered by branches.
isPhi(st, v) == IsArg(st, v) /\ ArgBlock(st, v) # 1 /\ getTerminatorForResult(st, v) = 0

isStoreCopy(st, value) ==
  /\ KindOf(st, value) = "copy_value"
  /\ Cardinality(Uses(st.code, value)) = 1
  /\ \A u \in Uses(st.code, value) : KindOf(st, u[1]) = "store"

\* The operand value whose storage the definition projects from, or 0.
getProjectedDefOperand(st, value) ==
  LET k == KindOf(st, value)
      op == InstOf(st.code, value).ops[1]
  IN CASE k = "begin_borrow" -> op
       [] k = "copy_value" -> IF isStoreCopy(st, value) THEN op ELSE 0
       [] k = "destructure_result" ->
            IF isPseudoCallResult(st, InstOf(st.code, op).ops[1]) THEN 0
            ELSE InstOf(st.code, op).ops[1]
       [] k = "tuple_extract" -> IF KindOf(st, op) = "apply" THEN 0 ELSE op
       [] k \in {"struct_extract", "open_existential_value", "open_existential_box_value"} -> op
       [] OTHER -> 0

\* The operand value whose storage the definition reuses, or 0.
getReusedStorageOperand(st, value) ==
  IF KindOf(st, value) \in {"open_existential_value", "open_existential_box_value",
                            "unchecked_enum_data", "unchecked_bitwise_cast"}
  THEN InstOf(st.code, value).ops[1]
  ELSE IF KindOf(st, getTerminatorForResult(st, value)) = "switch_enum"
  THEN InstOf(st.code, getTerminatorForResult(st, value)).ops[1]
  ELSE 0

getSingleReturnAddress(st) == st.bbargs[1][1].id

getTupleStorageValue(f, st, user, opnum) ==
  IF ~isPseudoReturnValue(f, st.code, user) THEN user
  ELSE st.bbargs[1][Len(SelectSeq(SubSeq(f.results, 1, opnum),
                                  LAMBDA r : r.formalIndirect)) + 1].id

\* The value whose storage the operand (user, opnum) can project into, or 0.
\* getProjectedUseValue that does not know of struct and tuple users.
getProjectedUseValueNoAggregate(f, st, user, opnum) ==
  LET k == KindOf(st, user)
  IN CASE k \in {"enum", "init_existential_value"} -> user
       [] k = "return" -> getSingleReturnAddress(st)
       [] OTHER -> 0

\* getProjectedUseValue that lets an operand project into a borrow of it.
getProjectedUseValueIntoBorrow(f, st, user, opnum) ==
  LET k == KindOf(st, user)
  IN CASE k \in {"struct", "enum", "init_existential_value", "begin_borrow"} -> user
       [] k = "tuple" -> getTupleStorageValue(f, st, user, opnum)
       [] k = "return" -> getSingleReturnAddress(st)
       [] OTHER -> 0

getProjectedUseValue(f, st, user, opnum) ==
  LET k == KindOf(st, user)
  IN CASE k \in {"struct", "enum", "init_existential_value"} -> user
       [] k = "tuple" -> getTupleStorageValue(f, st, user, opnum)
       [] k = "return" -> getSingleReturnAddress(st)
       [] OTHER -> 0

doesNotNeedStackAllocation(st, value) == KindOf(st, value) \in {"load_borrow", "begin_apply"}

recordDefProjection(st, oper, projectedValue) ==
  LET i == Ordinal(st.vsm, projectedValue)
  IN [st EXCEPT !.vsm[i].projectedStorageID = Ordinal(st.vsm, oper),
                !.vsm[i].isDefProjection = TRUE]

recordComposingUseProjection(st, value, opnum, userValue) ==
  LET i == Ordinal(st.vsm, value)
  IN [st EXCEPT !.vsm[i].projectedStorageID = Ordinal(st.vsm, userValue),
                !.vsm[i].projectedOperandNum = opnum,
                !.vsm[i].isUseProjection = TRUE,
                !.vsm[i].initializesEnum = (ValTy(st, userValue).n = "E")]

\* recordPhiUseProjection that records the projection as a def-projection.
recordPhiUseProjectionAsDef(st, value, phi) ==
  LET i == Ordinal(st.vsm, value)
  IN [st EXCEPT !.vsm[i].projectedStorageID = Ordinal(st.vsm, phi),
                !.vsm[i].isDefProjection = TRUE]

recordPhiUseProjection(st, value, phi) ==
  LET i == Ordinal(st.vsm, value)
  IN [st EXCEPT !.vsm[i].projectedStorageID = Ordinal(st.vsm, phi),
                !.vsm[i].isUseProjection = TRUE]

\* DominanceInfo::properlyDominates for an instruction of the entry block
\* over another instruction.
properlyDominates(c, a, b) ==
  IF InstOf(c, a).blk = InstOf(c, b).blk THEN PosOf(c, a) < PosOf(c, b)
  ELSE InstOf(c, a).blk = 1

\* checkStorageDominates; a null incoming value (0) is dereferenced.
checkStorageDominates(st, allocInst, incomingValues) ==
  \A k \in DOMAIN incomingValues :
    LET v == incomingValues[k]
    IN IF HasInst(st.code, v) THEN properlyDominates(st.code, allocInst, v)
       ELSE InstOf(st.code, allocInst).blk = 1 /\ ArgBlock(st, v) # 1

\* The uses findProjectionIntoUseImpl accepts: the loop takes the first of
\* them in use-list order.
ProjectableUses(f, st, value, incomingValues, intoPhi) ==
  {u \in Uses(st.code, value) :
     LET userValue == getProjectedUseValue(f, st, u[1], u[2])
         b == BaseOrdinal(st.vsm, Ordinal(st.vsm, userValue), ~intoPhi)
     IN /\ userValue # 0
        /\ u[2] <= InvalidOper
        /\ b # 0
        /\ KindOf(st, st.vsm[b].storageAddress) = "alloc_stack"
             => checkStorageDominates(st, st.vsm[b].storageAddress, incomingValues)}

\* The uses for which the loop calls checkStorageDominates.
DominanceCheckedUses(f, st, value, intoPhi) ==
  {u \in Uses(st.code, value) :
     LET userValue == getProjectedUseValue(f, st, u[1], u[2])
         b == BaseOrdinal(st.vsm, Ordinal(st.vsm, userValue), ~intoPhi)
     IN userValue # 0 /\ b # 0 /\ KindOf(st, st.vsm[b].storageAddress) = "alloc_stack"}

findProjectionIntoUseImpl(f, st, value, use) ==
  recordComposingUseProjection(st, value, use[2], getProjectedUseValue(f, st, use[1], use[2]))

\* The opened archetypes a type depends on, in the order in which
\* CanType::visit meets them.
OpenedArchetypes(t) ==
  CASE t.n \in {"O1", "SO1"} -> <<"O1">>
    [] t.n = "O2" -> <<"O2">>
    [] t.n = "S12" -> <<"O1", "O2">>
    [] t.n = "S21" -> <<"O2", "O1">>
    [] OTHER -> <<>>

\* SILModule::getRootOpenedArchetypeDef: the instruction that opens the
\* archetype.
getRootOpenedArchetypeDef(st, archetype) ==
  (CHOOSE i \in Range(st.code) :
     i.kind = "open_existential_value" /\ i.ty.n = archetype).id

\* DominanceInfo::dominates for two instructions.
dominates(c, a, b) == a = b \/ properlyDominates(c, a, b)

\* The visitor that keeps the first opening instruction it meets.
firstOpeningInst(st, allocTy) ==
  IF OpenedArchetypes(allocTy) = <<>> THEN 0
  ELSE getRootOpenedArchetypeDef(st, OpenedArchetypes(allocTy)[1])

\* The type visitor of createStackAllocation: the opening instruction that
\* every other opening instruction of the type dominates, or 0.
latestOpeningInst(st, allocTy) ==
  FoldSeq(LAMBDA latest, archetype :
            LET openingInst == getRootOpenedArchetypeDef(st, archetype)
            IN IF latest # 0 /\ dominates(st.code, openingInst, latest) THEN latest
               ELSE openingInst,
          0, OpenedArchetypes(allocTy), 1)

\* computeDominatedBoundaryBlocks: the blocks dominated by root at which the
\* dominated region ends, in block order: those that leave the function and
\* those with a successor which root does not dominate.
computeDominatedBoundaryBlocks(f, root) ==
  LET avoiding == [b \in DOMAIN f.succ |-> IF b = root THEN <<>> ELSE f.succ[b]]
      dominated == IF root = 1 THEN DOMAIN f.succ
                   ELSE DOMAIN f.succ \ ReachableBlocks(avoiding, {1})
  IN SelectSeq([b \in DOMAIN f.succ |-> b],
               LAMBDA b : /\ b \in dominated
                          /\ \/ f.succ[b] = <<>>
                             \/ \E k \in DOMAIN f.succ[b] : f.succ[b][k] \notin dominated)

\* createStackAllocation that ends the storage at the first function exit only.
createStackAllocationFirstExit(f, st, value) ==
  LET alloc == st.nextId
      s1 == Emit(st, st.code[1].id, "alloc_stack", AddrTy(ValTy(st, value)), "none", <<>>, "", 0)
  IN Res(Emit(s1, ExitingInsts(s1.code)[1], "dealloc_stack", Void, "none", <<alloc>>, "", 0),
         alloc)

createStackAllocation(f, st, value) ==
  LET alloc == st.nextId
      allocTy == ValTy(st, value)
      latest == latestOpeningInst(st, allocTy)
      s1 == IF latest # 0
            THEN EmitAfter(st, latest, "alloc_stack", AddrTy(allocTy), "none", <<>>, "", 0)
            ELSE Emit(st, st.code[1].id, "alloc_stack", AddrTy(allocTy), "none", <<>>, "", 0)
      boundary == computeDominatedBoundaryBlocks(f, InstOf(s1.code, alloc).blk)
      deallocPoints == IF latest # 0
                       THEN [k \in DOMAIN boundary |-> TermId(s1.code, boundary[k])]
                       ELSE ExitingInsts(s1.code)
  IN Res(FoldSeq(LAMBDA a, deallocPoint :
                   Emit(a, deallocPoint, "dealloc_stack", Void, "none", <<alloc>>, "", 0),
                 s1, deallocPoints, 1),
         alloc)

\* createStackAllocationStorage that does not record the allocation.
createStackAllocationStorageUnrecorded(f, st, value) ==
  createStackAllocation(f, st, value).st

createStackAllocationStorage(f, st, value) ==
  LET r == createStackAllocation(f, st, value)
  IN [r.st EXCEPT !.vsm[Ordinal(st.vsm, value)].storageAddress = r.v]

\* allocateValue that records a value reusing its operand's storage as a
\* def-projection.
allocateValueReusedAsDef(f, st, value, use) ==
  LET storage == GetStorage(st.vsm, value)
      oper == getProjectedDefOperand(st, value)
  IN IF storage.isRewritten THEN st
     ELSE IF getReusedStorageOperand(st, value) # 0
     THEN recordDefProjection(st, getReusedStorageOperand(st, value), value)
     ELSE IF doesNotNeedStackAllocation(st, value) THEN st
     ELSE IF oper # 0 THEN recordDefProjection(st, oper, value)
     ELSE IF ValOwn(st, value) = "guaranteed" THEN Fatal(st)
     ELSE IF use # <<>> THEN findProjectionIntoUseImpl(f, st, value, use)
     ELSE createStackAllocationStorage(f, st, value)

\* allocateValue that does not look at the value's ownership.
allocateValueAnyOwnership(f, st, value, use) ==
  LET storage == GetStorage(st.vsm, value)
      oper == getProjectedDefOperand(st, value)
  IN IF storage.isRewritten THEN st
     ELSE IF getReusedStorageOperand(st, value) # 0 THEN st
     ELSE IF doesNotNeedStackAllocation(st, value) THEN st
     ELSE IF oper # 0 THEN recordDefProjection(st, oper, value)
     ELSE IF use # <<>> THEN findProjectionIntoUseImpl(f, st, value, use)
     ELSE createStackAllocationStorage(f, st, value)

\* allocateValue; `use` is the use the projection search settles on, or <<>>
\* when no use qualifies.
allocateValue(f, st, value, use) ==
  LET storage == GetStorage(st.vsm, value)
      oper == getProjectedDefOperand(st, value)
  IN IF storage.isRewritten THEN st
     ELSE IF getReusedStorageOperand(st, value) # 0 THEN st
     ELSE IF doesNotNeedStackAllocation(st, value) THEN st
     ELSE IF oper # 0 THEN recordDefProjection(st, oper, value)
     ELSE IF ValOwn(st, value) = "guaranteed" THEN Fatal(st)
     ELSE IF use # <<>> THEN findProjectionIntoUseImpl(f, st, value, use)
     ELSE createStackAllocationStorage(f, st, value)

removeAllocation(st, value) ==
  LET i == Ordinal(st.vsm, value)
      allocInst == st.vsm[i].storageAddress
      dead == {allocInst} \cup {u[1] : u \in Uses(st.code, allocInst)}
  IN [st EXCEPT !.vsm[i].storageAddress = 0,
                !.code = SelectSeq(@, LAMBDA x : x.id \notin dead)]

\* The branch operands (branch, argument number) that feed a phi.
PhiOperands(st, phi) ==
  LET b == ArgBlock(st, phi)
      k == CHOOSE k \in DOMAIN st.bbargs[b] : st.bbargs[b][k].id = phi
  IN {<<x.id, k>> : x \in {x \in Range(st.code) : x.kind = "br" /\ x.n = b}}

\* CoalescedPhi::coalesce: the incoming operands that can share the phi's
\* storage.  An operand qualifies when it is an instruction result of the
\* predecessor block with its own allocation and the branch is its only use.
coalesce(st, phi) ==
  {o \in PhiOperands(st, phi) :
     LET v == InstOf(st.code, o[1]).ops[o[2]]
     IN /\ HasInst(st.code, v)
        /\ Contains(st.vsm, v)
        /\ ~isProjection(GetStorage(st.vsm, v))
        /\ KindOf(st, GetStorage(st.vsm, v).storageAddress) = "alloc_stack"
        /\ InstOf(st.code, v).blk = InstOf(st.code, o[1]).blk
        /\ Cardinality(Uses(st.code, v)) = 1}

\* The list allocatePhi hands to the projection search: resize(n) makes n
\* null values (0), then the n coalesced values are pushed behind them.
coalescedValues(st, phi) ==
  LET coalescedOperands == coalesce(st, phi)
      ops == CHOOSE q \in [1..Cardinality(coalescedOperands) -> coalescedOperands] :
               \A i, j \in DOMAIN q : i < j => PosOf(st.code, q[i][1]) < PosOf(st.code, q[j][1])
  IN [k \in DOMAIN ops |-> 0] \o [k \in DOMAIN ops |-> InstOf(st.code, ops[k][1]).ops[ops[k][2]]]

\* allocatePhi; checkStorageDominates dereferences a null incoming value.
allocatePhi(f, st, phi, use) ==
  LET coalescedOperands == coalesce(st, phi)
      s1 == IF use # <<>> THEN findProjectionIntoUseImpl(f, st, phi, use)
            ELSE createStackAllocationStorage(f, st, phi)
      ops == CHOOSE q \in [1..Cardinality(coalescedOperands) -> coalescedOperands] :
               \A i, j \in DOMAIN q : i < j => PosOf(st.code, q[i][1]) < PosOf(st.code, q[j][1])
      s2 == FoldSeq(LAMBDA a, o :
                      LET v == InstOf(a.code, o[1]).ops[o[2]]
                      IN recordPhiUseProjection(removeAllocation(a, v), v, phi),
                    s1, ops, 1)
  IN IF 0 \in Range(coalescedValues(st, phi)) /\ DominanceCheckedUses(f, st, phi, TRUE) # {}
     THEN Fatal(st)
     ELSE s2

----------------------------------------------------------------------------
(* Step 3: rewriting.  The instruction kinds covered are those of the      *)
(* functions above; any other kind ends in the visitors' fatal default.    *)

\* ValueStorage::markRewritten.
markStorageRewritten(st, value) ==
  [st EXCEPT !.vsm[Ordinal(st.vsm, value)].isRewritten = TRUE]

\* replaceValue that maps the new value in an entry of its own.
replaceValueAppended(st, oldValue, newValue) ==
  [st EXCEPT !.vsm = Append(@, [GetStorage(st.vsm, oldValue) EXCEPT !.value = newValue])]

\* ValueStorageMap::replaceValue: the entry of oldValue, ordinal and storage
\* unchanged, becomes the entry of newValue.
replaceValue(st, oldValue, newValue) ==
  [st EXCEPT !.vsm[Ordinal(st.vsm, oldValue)].value = newValue]

\* ValueStorageMap::setStorageAddress.
setStorageAddress(st, value, addr) ==
  [st EXCEPT !.vsm[Ordinal(st.vsm, value)].storageAddress = addr]

\* InstructionDeleter::forceDelete.
forceDelete(st, id) == [st EXCEPT !.code = RemoveInst(@, id)]

\* AddressMaterialization::initializeComposingUse for operand opnum of user.
initializeComposingUse(f, st, user, opnum) ==
  LET def == InstOf(st.code, user).ops[opnum + 1]
      storage == GetStorage(st.vsm, def)
  IN IF isAddressOnly(ValTy(st, def)) /\ storage.isUseProjection THEN st
     ELSE With(materializeProjectionIntoUse(f, st, user, user, opnum, FALSE),
               LAMBDA s, destAddr :
                 IF isAddressOnly(ValTy(st, def))
                 THEN Emit(s, user, "copy_addr", Void, "none",
                           <<storage.storageAddress, destAddr>>, "take", 1)
                 ELSE Emit(s, user, "store", Void, "none", <<def, destAddr>>,
                           TrivialStoreOr(ValTy(st, def), "init"), 0))

\* CallArgRewriter::rewriteIndirectArgument for argument k (from 1).
rewriteIndirectArgument(st, apply, k) ==
  LET a == InstOf(st.code, apply)
      argValue == a.ops[k]
      ty == ValTy(st, argValue)
      allocInst == st.nextId
      s1 == Emit(st, apply, "alloc_stack", AddrTy(ty), "none", <<>>, "", 0)
      \* owned convention
      o2 == Emit(s1, apply, "store", Void, "none", <<argValue, allocInst>>,
                 TrivialStoreOr(ty, "init"), 0)
      o3 == EmitAfter(o2, apply, "dealloc_stack", Void, "none", <<allocInst>>, "", 0)
      \* guaranteed convention
      borrow == s1.nextId
      g2 == Emit(s1, apply, "begin_borrow", ty, "guaranteed", <<argValue>>, "", 0)
      storeBorrow == g2.nextId
      g3 == Emit(g2, apply, "store_borrow", AddrTy(ty), "none", <<borrow, allocInst>>, "", 0)
      g4 == EmitAfter(g3, apply, "dealloc_stack", Void, "none", <<allocInst>>, "", 0)
      g5 == EmitAfter(g4, apply, "end_borrow", Void, "none", <<borrow>>, "", 0)
      g6 == EmitAfter(g5, apply, "end_borrow", Void, "none", <<storeBorrow>>, "", 0)
  IN IF isAddressOnly(ty)
     THEN SetOperand(st, apply, k, GetStorage(st.vsm, argValue).storageAddress)
     ELSE IF Callee(a.q).params[k].owned
     THEN SetOperand(o3, apply, k, allocInst)
     ELSE SetOperand(g6, apply, k, storeBorrow)

\* CallArgRewriter::rewriteArguments.
rewriteArguments(st0, apply) ==
  LET arg(st, k) ==
        IF ~ValTy(st, InstOf(st.code, apply).ops[k]).a
           /\ Callee(InstOf(st.code, apply).q).params[k].indirect
        THEN rewriteIndirectArgument(st, apply, k)
        ELSE st
  IN FoldSeq(arg, st0, [k \in DOMAIN InstOf(st0.code, apply).ops |-> k], 1)

\* getCallDestructure: the destructure_tuple that takes the pseudo result of
\* a call with several results apart, or 0.
getCallDestructure(st, apply) ==
  IF NumDirectResults(InstOf(st.code, apply).q) = 1 THEN 0
  ELSE IF \E u \in Uses(st.code, apply) : KindOf(st, u[1]) = "destructure_tuple"
  THEN (CHOOSE u \in Uses(st.code, apply) : KindOf(st, u[1]) = "destructure_tuple")[1]
  ELSE 0

\* The results of a destructure_tuple, in element order.
DestructureResults(c, destructure) ==
  LET rs == {x \in Range(c) : x.kind = "destructure_result" /\ x.ops = <<destructure>>}
  IN [i \in 1..Cardinality(rs) |-> (CHOOSE x \in rs : x.n = i - 1).id]

\* visitCallResults: the real results of a call.
CallResults(st, apply) ==
  IF getCallDestructure(st, apply) = 0 THEN <<apply>>
  ELSE DestructureResults(st.code, getCallDestructure(st, apply))

\* ApplyRewriter::materializeIndirectResultAddress.
materializeIndirectResultAddress(f, st, apply, oldResult) ==
  LET ty == ValTy(st, oldResult)
      allocInst == st.nextId
      loadInst == st.nextId + 2
      loaded(s2) ==
        ReplaceAllUsesWith(EmitAfter(s2, apply, "load", ty, ValOwn(st, oldResult),
                                     <<allocInst>>, TrivialLoadOr(ty, "take"), 0),
                           oldResult, loadInst)
  IN IF isAddressOnly(ty)
     THEN With(materializeAddress(f, st, apply, oldResult),
               LAMBDA s, addr : Res(markStorageRewritten(s, oldResult),
                                    getMaterializedAddress(s, oldResult)))
     ELSE Continue(EmitAfter(Emit(st, apply, "alloc_stack", AddrTy(ty), "none", <<>>, "", 0),
                             apply, "dealloc_stack", Void, "none", <<allocInst>>, "", 0),
                   LAMBDA s2 : IF Uses(st.code, oldResult) # {} THEN Res(loaded(s2), allocInst)
                               ELSE Res(s2, allocInst))

\* ApplyRewriter::makeIndirectArgs: the addresses of the indirect results.
makeIndirectArgs(f, st, apply) ==
  FoldSeq(LAMBDA acc, result :
            With(materializeIndirectResultAddress(f, acc.st, apply, result),
                 LAMBDA s, addr : Res(s, Append(acc.v, addr))),
          Res(st, <<>>), CallResults(st, apply), 1)

\* ApplyRewriter::replaceDirectResults for a call all of whose results are
\* indirect: the address-only results are marked rewritten, and a
\* destructure_tuple left without uses is deleted.
replaceDirectResults(st, destructure) ==
  LET results == DestructureResults(st.code, destructure)
      s1 == FoldSeq(LAMBDA a, r : IF isAddressOnly(ValTy(a, r)) THEN markStorageRewritten(a, r)
                                  ELSE a,
                    st, results, 1)
  IN IF destructure = 0 THEN st
     ELSE IF \A k \in DOMAIN results : Uses(st.code, results[k]) = {}
     THEN [s1 EXCEPT !.code = SelectSeq(@, LAMBDA x : x.id # destructure
                                                     /\ x.id \notin Range(results))]
     ELSE s1

\* convertApplyWithIndirectResults that leaves the call in indirectApplies.
convertApplyWithIndirectResultsKept(f, st, apply) ==
  LET old == InstOf(st.code, apply)
  IN IF Callee(old.q).indirectResult
     THEN replaceDirectResults(
            With(makeIndirectArgs(f, st, apply),
                 LAMBDA s, args :
                   Emit(s, apply, "apply", Void, "none",
                        args \o InstOf(s.code, apply).ops, old.q, 0)),
            getCallDestructure(st, apply))
     ELSE Emit(st, apply, "apply", old.ty, old.own, old.ops, old.q, 0)

\* ApplyRewriter::convertApplyWithIndirectResults (makeIndirectArgs,
\* rewriteApply, replaceDirectResults).
convertApplyWithIndirectResults(f, st, apply) ==
  LET old == InstOf(st.code, apply)
  IN Continue([st EXCEPT !.indirectApplies = SelectSeq(@, LAMBDA x : x # apply)],
          LAMBDA s1 :
            IF Callee(old.q).indirectResult
            THEN replaceDirectResults(
                   With(makeIndirectArgs(f, s1, apply),
                        LAMBDA s, args :
                          Emit(s, apply, "apply", Void, "none",
                               args \o InstOf(s.code, apply).ops, old.q, 0)),
                   getCallDestructure(st, apply))
            ELSE Emit(s1, apply, "apply", old.ty, old.own, old.ops, old.q, 0))

\* rewriteIndirectApply.
rewriteIndirectApply(f, st, apply) ==
  Continue(rewriteArguments(st, apply),
       LAMBDA s1 :
         IF ~Callee(InstOf(st.code, apply).q).indirectResult THEN s1
         ELSE forceDelete(convertApplyWithIndirectResults(f, s1, apply), apply))

\* The DefRewriter visitors.
DefRewriter_visitApplyInst(f, st, apply) ==
  convertApplyWithIndirectResults(f, rewriteArguments(st, apply), apply)

\* DefRewriter::visitDestructureTupleInst: the call whose results the
\* destructure_tuple takes apart is rewritten.
DefRewriter_visitDestructureTupleInst(f, st, result) ==
  LET srcVal == InstOf(st.code, DestructureOf(st, result)).ops[1]
  IN IF ~isPseudoCallResult(st, srcVal) THEN Fatal(st)
     ELSE convertApplyWithIndirectResults(f, rewriteArguments(st, srcVal), srcVal)

DefRewriter_visitEnumInst(f, st, enumInst) ==
  With(materializeAddress(f,
                          IF Len(InstOf(st.code, enumInst).ops) > 0
                          THEN initializeComposingUse(f, st, enumInst, 0) ELSE st,
                          enumInst, enumInst),
       LAMBDA s, addr : Emit(s, enumInst, "inject_enum_addr", Void, "none", <<addr>>, "",
                             InstOf(st.code, enumInst).n))

DefRewriter_visitLoadInst(f, st, loadInst) ==
  LET l == InstOf(st.code, loadInst)
  IN With(materializeAddress(f, st, loadInst, loadInst),
          LAMBDA s, addr :
            IF addr # l.ops[1]
            THEN Emit(s, loadInst, "copy_addr", Void, "none", <<l.ops[1], addr>>,
                      IF l.q = "take" THEN "take" ELSE "copy", 1)
            ELSE s)

DefRewriter_visitLoadBorrowInst(st, lbi) ==
  setStorageAddress(st, lbi, InstOf(st.code, lbi).ops[1])

\* visitStructInst and visitTupleInst.
DefRewriter_visitAggregate(f, st0, inst) ==
  FoldSeq(LAMBDA st, k : initializeComposingUse(f, st, inst, k - 1),
          st0, [k \in DOMAIN InstOf(st0.code, inst).ops |-> k], 1)

DefRewriter_visitUnconditionalCheckedCastInst(f, st, cast) ==
  LET srcVal == InstOf(st.code, cast).ops[1]
      srcTy == ValTy(st, srcVal)
      srcAddr == st.nextId
      s1 == Emit(st, cast, "alloc_stack", AddrTy(srcTy), "none", <<>>, "", 0)
      s2 == Emit(s1, cast, "store", Void, "none", <<srcVal, srcAddr>>,
                 TrivialStoreOr(srcTy, "init"), 0)
  IN With(materializeAddress(f, s2, cast, cast),
          LAMBDA s, destAddr :
            EmitAfter(Emit(s, cast, "unconditional_checked_cast_addr", Void, "none",
                           <<srcAddr, destAddr>>, "", 0),
                      cast, "dealloc_stack", Void, "none", <<srcAddr>>, "", 0))

\* DefRewriter::rewriteArg: the insertion point is the beginning of the block.
rewriteArg(f, st, arg) ==
  With(materializeAddress(f, st, st.code[BlockBegin(st.code, ArgBlock(st, arg))].id, arg),
       LAMBDA s, addr : setStorageAddress(s, arg, addr))

\* DefRewriter::rewriteValue.
rewriteValue(f, st, value) ==
  LET k == KindOf(st, value)
  IN CASE k = "argument" -> rewriteArg(f, st, value)
       [] k = "apply" -> DefRewriter_visitApplyInst(f, st, value)
       [] k = "destructure_result" -> DefRewriter_visitDestructureTupleInst(f, st, value)
       [] k = "enum" -> DefRewriter_visitEnumInst(f, st, value)
       [] k = "load" -> DefRewriter_visitLoadInst(f, st, value)
       [] k = "load_borrow" -> DefRewriter_visitLoadBorrowInst(st, value)
       [] k \in {"struct", "tuple"} -> DefRewriter_visitAggregate(f, st, value)
       [] k = "unconditional_checked_cast" ->
            DefRewriter_visitUnconditionalCheckedCastInst(f, st, value)
       [] OTHER -> Fatal(st)

\* markRewritten that sets the flag and leaves the address unset.
markRewrittenFlagOnly(st, oldValue, addr) == markStorageRewritten(st, oldValue)

\* UseRewriter::markRewritten.
markRewritten(st, oldValue, addr) ==
  markStorageRewritten(setStorageAddress(st, oldValue, addr), oldValue)

UseRewriter_visitValueMetatypeInst(f, st, vmi, k) ==
  With(materializeAddress(f, st, vmi, InstOf(st.code, vmi).ops[k]),
       LAMBDA s, addr : SetOperand(s, vmi, k, addr))

UseRewriter_visitCopyValueInst(f, st, copyInst) ==
  LET srcAddr == GetStorage(st.vsm, InstOf(st.code, copyInst).ops[1]).storageAddress
  IN With(materializeAddress(f, st, copyInst, copyInst),
          LAMBDA s, destAddr :
            markRewritten(IF destAddr # srcAddr
                          THEN Emit(s, copyInst, "copy_addr", Void, "none",
                                    <<srcAddr, destAddr>>, "copy", 1)
                          ELSE s,
                          copyInst, destAddr))

UseRewriter_visitDestroyValueInst(st, destroy) ==
  LET srcAddr == GetStorage(st.vsm, InstOf(st.code, destroy).ops[1]).storageAddress
  IN forceDelete(Emit(st, destroy, "destroy_addr", Void, "none", <<srcAddr>>, "", 0), destroy)

\* rewriteStore that takes from the source whatever it is.
rewriteStoreAlwaysTake(st, storeInst, srcVal, destAddr, isInit) ==
  forceDelete(Emit(st, storeInst, "copy_addr", Void, "none",
                   <<GetStorage(st.vsm, srcVal).storageAddress, destAddr>>, "take", isInit),
              storeInst)

\* rewriteStore; isInit is 1 for an initialization.
rewriteStore(st, storeInst, srcVal, destAddr, isInit) ==
  LET storage == GetStorage(st.vsm, srcVal)
      isTake == IF KindOf(st, srcVal) = "copy_value" /\ storage.isDefProjection
                THEN "copy" ELSE "take"
  IN forceDelete(Emit(st, storeInst, "copy_addr", Void, "none",
                      <<storage.storageAddress, destAddr>>, isTake, isInit),
                 storeInst)

UseRewriter_visitStoreInst(st, storeInst) ==
  LET s == InstOf(st.code, storeInst)
  IN rewriteStore(st, storeInst, s.ops[1], s.ops[2], IF s.q = "init" THEN 1 ELSE 0)

UseRewriter_visitUncheckedEnumDataInst(st, enumDataInst) ==
  LET e == InstOf(st.code, enumDataInst)
      srcAddr == GetStorage(st.vsm, e.ops[1]).storageAddress
      enumAddrInst == st.nextId
      s1 == Emit(st, enumDataInst, "unchecked_take_enum_data_addr", AddrTy(e.ty), "none",
                 <<srcAddr>>, "", e.n)
  IN markRewritten(s1, enumDataInst, enumAddrInst)

\* UseRewriter::visitOpenExistentialValueInst.
UseRewriter_visitOpenExistentialValueInst(st, openExistential) ==
  LET o == InstOf(st.code, openExistential)
      srcAddr == GetStorage(st.vsm, o.ops[1]).storageAddress
      openAddr == st.nextId
  IN markRewritten(Emit(st, openExistential, "open_existential_addr", AddrTy(o.ty), "none",
                        <<srcAddr>>, "immutable", 0),
                   openExistential, openAddr)

\* UseRewriter::visitBeginBorrowInst of a borrow that is not lexical.
UseRewriter_visitBeginBorrowInst(st, borrow) ==
  markRewritten(st, borrow, GetStorage(st.vsm, InstOf(st.code, borrow).ops[1]).storageAddress)

\* UseRewriter::visitSwitchEnumInst; the switch has one payload case, whose
\* block is field n.
UseRewriter_visitSwitchEnumInst(st, switchEnum) ==
  LET enumAddr == GetStorage(st.vsm, InstOf(st.code, switchEnum).ops[1]).storageAddress
      caseBB == InstOf(st.code, switchEnum).n
      rewriteCase(s0) ==
        LET caseArg == s0.bbargs[caseBB][1]
            begin == s0.code[BlockBegin(s0.code, caseBB)].id
            caseAddr == s0.nextId
            caseLoad == s0.nextId + 1
            s1 == Emit(s0, begin, "unchecked_take_enum_data_addr", AddrTy(caseArg.ty), "none",
                       <<enumAddr>>, "", 1)
            s2 == Emit(s1, begin, "load", caseArg.ty, caseArg.own, <<caseAddr>>,
                       TrivialLoadOr(caseArg.ty, "take"), 0)
            s3 == ReplaceAllUsesWith(s2, caseArg.id, caseLoad)
            s4 == IF isAddressOnly(caseArg.ty)
                  THEN markRewritten(replaceValue(s3, caseArg.id, caseLoad), caseLoad, caseAddr)
                  ELSE s3
        IN IF Len(s0.bbargs[caseBB]) = 0 THEN s0
           ELSE [s4 EXCEPT !.bbargs[caseBB] = Tail(@)]
  IN IF enumAddr = 0 THEN Fatal(st)
     ELSE Continue(rewriteCase(st),
                   LAMBDA s : forceDelete(Emit(s, switchEnum, "switch_enum_addr", Void, "none",
                                               <<enumAddr>>, "", caseBB),
                                          switchEnum))

UseRewriter_visitUnconditionalCheckedCastInst(f, st, cast) ==
  LET c == InstOf(st.code, cast)
      srcAddr == GetStorage(st.vsm, c.ops[1]).storageAddress
      \* loadable destination
      destAddr == st.nextId
      dest == st.nextId + 2
      l1 == Emit(st, cast, "alloc_stack", AddrTy(c.ty), "none", <<>>, "", 0)
      l2 == Emit(l1, cast, "unconditional_checked_cast_addr", Void, "none",
                 <<srcAddr, destAddr>>, "", 0)
      l3 == EmitAfter(l2, cast, "load", c.ty, c.own, <<destAddr>>,
                      IF isTrivial(c.ty) THEN "trivial" ELSE "copy", 0)
      l4 == EmitAfter(l3, dest, "dealloc_stack", Void, "none", <<destAddr>>, "", 0)
  IN IF isAddressOnly(c.ty)
     THEN With(materializeAddress(f, st, cast, cast),
               LAMBDA s, addr :
                 Emit(markRewritten(s, cast, addr), cast, "unconditional_checked_cast_addr",
                      Void, "none", <<srcAddr, addr>>, "", 0))
     ELSE ReplaceAllUsesWith(l4, cast, dest)

\* UseRewriter::rewriteUse for operand number opnum (from 0) of user.
\* UseRewriter::rewriteDestructure.
rewriteDestructure(st0, destructure) ==
  FoldSeq(LAMBDA st, result :
            With(materializeDefProjection(st, destructure, result),
                 LAMBDA s, extractAddr :
                   IF isAddressOnly(ValTy(st, result)) THEN markRewritten(s, result, extractAddr)
                   ELSE ReplaceAllUsesWith(
                          Emit(s, destructure, "load", ValTy(st, result), ValOwn(st, result),
                               <<extractAddr>>, TrivialLoadOr(ValTy(st, result), "take"), 0),
                          result, s.nextId)),
          st0, DestructureResults(st0.code, destructure), 1)

rewriteUse(f, st, user, opnum) ==
  LET k == KindOf(st, user)
  IN CASE k = "apply" -> rewriteIndirectArgument(st, user, opnum + 1)
       [] k = "begin_borrow" -> UseRewriter_visitBeginBorrowInst(st, user)
       [] k = "value_metatype" -> UseRewriter_visitValueMetatypeInst(f, st, user, opnum + 1)
       [] k = "br" -> visitBranchInst(f, st, user, opnum + 1)
       [] k = "copy_value" -> UseRewriter_visitCopyValueInst(f, st, user)
       [] k = "destroy_value" -> UseRewriter_visitDestroyValueInst(st, user)
       [] k = "destructure_tuple" -> rewriteDestructure(st, user)
       [] k = "open_existential_value" -> UseRewriter_visitOpenExistentialValueInst(st, user)
       [] k = "store" -> UseRewriter_visitStoreInst(st, user)
       [] k = "switch_enum" -> UseRewriter_visitSwitchEnumInst(st, user)
       [] k = "unchecked_enum_data" -> UseRewriter_visitUncheckedEnumDataInst(st, user)
       [] k = "unconditional_checked_cast" ->
            UseRewriter_visitUnconditionalCheckedCastInst(f, st, user)
       [] k \in {"enum", "struct", "tuple", "return", "end_borrow", "init_existential_value"} -> st
       [] OTHER -> Fatal(st)

\* ReturnRewriter::rewriteElement.
rewriteElement(st, anchor, oldResult, newResultArg) ==
  LET resultAddr == GetStorage(st.vsm, oldResult).storageAddress
  IN IF isAddressOnly(ValTy(st, oldResult))
     THEN IF resultAddr # newResultArg
          THEN Emit(st, anchor, "copy_addr", Void, "none", <<resultAddr, newResultArg>>, "take", 1)
          ELSE st
     ELSE Emit(st, anchor, "store", Void, "none", <<oldResult, newResultArg>>,
               TrivialStoreOr(ValTy(st, oldResult), "init"), 0)

\* The point before the dealloc_stacks that precede position p.
RECURSIVE BeforeDeallocs(_, _)
BeforeDeallocs(c, p) ==
  IF p > 1 /\ c[p - 1].blk = c[p].blk /\ c[p - 1].kind = "dealloc_stack"
  THEN BeforeDeallocs(c, p - 1) ELSE p

\* rewriteReturn that inserts at the return itself.
rewriteReturnAtReturn(f, st, returnInst) ==
  LET insertPt == returnInst
      op == InstOf(st.code, returnInst).ops[1]
      pseudoReturnVal == f.numDirectResults # 1
      oldResults == IF pseudoReturnVal THEN InstOf(st.code, op).ops ELSE <<op>>
      elem(acc, i) ==
        IF f.results[i].formalIndirect
        THEN [st |-> rewriteElement(acc.st, insertPt, oldResults[i],
                                    acc.st.bbargs[1][acc.arg].id),
              arg |-> acc.arg + 1, direct |-> acc.direct]
        ELSE [acc EXCEPT !.direct = Append(@, oldResults[i])]
      r == FoldSeq(elem, [st |-> st, arg |-> 1, direct |-> <<>>],
                   [i \in DOMAIN f.results |-> i], 1)
      newTuple == r.st.nextId
      s1 == IF Len(r.direct) = 1 THEN r.st
            ELSE Emit(r.st, insertPt, "tuple", Void, "none", r.direct, "", 0)
      s2 == SetOperand(s1, returnInst, 1, IF Len(r.direct) = 1 THEN r.direct[1] ELSE newTuple)
  IN IF pseudoReturnVal THEN forceDelete(s2, op) ELSE s2

\* ReturnRewriter::rewriteReturn.
rewriteReturn(f, st, returnInst) ==
  LET insertPt == st.code[BeforeDeallocs(st.code, PosOf(st.code, returnInst))].id
      op == InstOf(st.code, returnInst).ops[1]
      pseudoReturnVal == f.numDirectResults # 1
      oldResults == IF pseudoReturnVal THEN InstOf(st.code, op).ops ELSE <<op>>
      elem(acc, i) ==
        IF f.results[i].formalIndirect
        THEN [st |-> rewriteElement(acc.st, insertPt, oldResults[i],
                                    acc.st.bbargs[1][acc.arg].id),
              arg |-> acc.arg + 1, direct |-> acc.direct]
        ELSE [acc EXCEPT !.direct = Append(@, oldResults[i])]
      r == FoldSeq(elem, [st |-> st, arg |-> 1, direct |-> <<>>],
                   [i \in DOMAIN f.results |-> i], 1)
      newTuple == r.st.nextId
      s1 == IF Len(r.direct) = 1 THEN r.st
            ELSE Emit(r.st, insertPt, "tuple", Void, "none", r.direct, "", 0)
      s2 == SetOperand(s1, returnInst, 1, IF Len(r.direct) = 1 THEN r.direct[1] ELSE newTuple)
  IN IF pseudoReturnVal THEN forceDelete(s2, op) ELSE s2

\* ReturnRewriter::rewriteReturns.
rewriteReturns(f, st0) ==
  FoldSeq(LAMBDA st, t : IF KindOf(st, t) = "return" THEN rewriteReturn(f, st, t) ELSE st,
          st0, ExitingInsts(st0.code), 1)

\* The tail of rewriteFunction: the applies left in indirectApplies, then
\* the returns.
rewriteIndirectApplies(f, st0) ==
  FoldSeq(LAMBDA st, apply :
            IF apply \in Range(st.indirectApplies) THEN rewriteIndirectApply(f, st, apply)
            ELSE st,
          st0, st0.indirectApplies, 1)

hasIndirectFormalResults(f) == \E i \in DOMAIN f.results : f.results[i].formalIndirect

----------------------------------------------------------------------------
(* Cleanup: deleteRewrittenInstructions and removeOpaquePhis.              *)

\* An instruction together with the transitive users of its result.
RECURSIVE WithUsers(_, _)
WithUsers(c, dead) ==
  LET more == dead \cup {u[1] : u \in UNION {Uses(c, d) : d \in dead}}
  IN IF more = dead THEN dead ELSE WithUsers(c, more)

\* InstructionDeleter::forceDeleteWithUsers.
forceDeleteWithUsers(st, inst) ==
  LET dead == WithUsers(st.code, {inst})
  IN [st EXCEPT !.code = SelectSeq(@, LAMBDA x : x.id \notin dead)]

\* InstructionDeleter::deleteIfDead: an address projection without uses, or
\* an allocation used by nothing but its dealloc_stacks, is deleted.
deleteIfDead(st, inst) ==
  LET users == {u[1] : u \in Uses(st.code, inst)}
  IN IF \A u \in users : KindOf(st, inst) = "alloc_stack" /\ KindOf(st, u) = "dealloc_stack"
     THEN [st EXCEPT !.code = SelectSeq(@, LAMBDA x : x.id \notin users \cup {inst})]
     ELSE st

\* The values that the storage behind the last element of deadArgIndices
\* may hold (the vector's unused inline storage is never written).
StaleIndices == 0..2

\* *nextDeadArgI: element next of deadArgIndices or, when the iterator has
\* reached the end, the stale value behind the last element.
DeadArgAt(deadArgIndices, next, pastEnd) ==
  IF next <= Len(deadArgIndices) THEN deadArgIndices[next] ELSE pastEnd

\* The loop of filterDeadArgs from argument i (counted from 1) on.
RECURSIVE filterDeadArgsFrom(_, _, _, _, _, _)
filterDeadArgsFrom(origArgs, deadArgIndices, pastEnd, i, next, newArgs) ==
  IF i > Len(origArgs) THEN [args |-> newArgs, next |-> next]
  ELSE IF i - 1 = DeadArgAt(deadArgIndices, next, pastEnd)
  THEN filterDeadArgsFrom(origArgs, deadArgIndices, pastEnd, i + 1, next + 1, newArgs)
  ELSE filterDeadArgsFrom(origArgs, deadArgIndices, pastEnd, i + 1, next,
                          Append(newArgs, origArgs[i]))

\* filterDeadArgs: the new operands, and where nextDeadArgI stands at the end.
filterDeadArgs(origArgs, deadArgIndices, pastEnd) ==
  filterDeadArgsFrom(origArgs, deadArgIndices, pastEnd, 1, 1, <<>>)

removeBranchArgs(st, branch, deadArgIndices, pastEnd) ==
  LET b == InstOf(st.code, branch)
  IN forceDelete(Emit(st, branch, "br", Void, "none",
                      filterDeadArgs(b.ops, deadArgIndices, pastEnd).args, "", b.n),
                 branch)

\* The indices (from 0) of the address-only arguments of a block, in order.
DeadArgIndices(st, bb) ==
  LET dead == SelectSeq([k \in DOMAIN st.bbargs[bb] |-> k],
                        LAMBDA k : isAddressOnly(st.bbargs[bb][k].ty))
  IN [j \in DOMAIN dead |-> dead[j] - 1]

removeOpaquePhis(st, bb, pastEnd) ==
  LET deadArgIndices == DeadArgIndices(st, bb)
      preds == SelectSeq(st.code, LAMBDA x : x.kind = "br" /\ x.n = bb)
      s1 == FoldSeq(LAMBDA a, x : removeBranchArgs(a, x.id, deadArgIndices, pastEnd),
                    st, preds, 1)
      live == SelectSeq([k \in DOMAIN st.bbargs[bb] |-> k],
                        LAMBDA k : k - 1 \notin Range(deadArgIndices))
  IN IF bb = 1 \/ deadArgIndices = <<>> THEN st
     ELSE [s1 EXCEPT !.bbargs[bb] = [j \in DOMAIN live |-> @[live[j]]]]

\* The assertion that ends filterDeadArgs fails for some branch.
FilterOverruns(st, pastEnd) ==
  \E bb \in DOMAIN st.bbargs \ {1} :
    /\ DeadArgIndices(st, bb) # <<>>
    /\ \E x \in Range(st.code) :
         /\ x.kind = "br" /\ x.n = bb
         /\ filterDeadArgs(x.ops, DeadArgIndices(st, bb), pastEnd).next
              # Len(DeadArgIndices(st, bb)) + 1

deleteRewrittenInstructions(st0, pastEnd) ==
  LET del(st, i) ==
        LET e == st0.vsm[Len(st0.vsm) + 1 - i]
            s1 == IF HasInst(st.code, e.storageAddress)
                  THEN deleteIfDead(st, e.storageAddress) ELSE st
            parent == IF KindOf(s1, e.value) = "destructure_result"
                      THEN DestructureOf(s1, e.value) ELSE e.value
            deadInst == IF KindOf(s1, parent) = "destructure_tuple"
                           /\ KindOf(s1, InstOf(s1.code, parent).ops[1]) = "apply"
                        THEN InstOf(s1.code, parent).ops[1] ELSE parent
        IN IF e.storageAddress = 0 THEN Fatal(st)
           ELSE IF ~HasInst(s1.code, e.value) THEN s1
           ELSE IF KindOf(s1, deadInst) \in {"open_existential_value",
                                             "open_existential_box_value"}
           THEN forceDelete(s1, deadInst)
           ELSE forceDeleteWithUsers(s1, deadInst)
      s2 == FoldSeq(del, st0, [i \in DOMAIN st0.vsm |-> i], 1)
      s3 == [s2 EXCEPT !.vsm = <<>>]
  IN FoldSeq(LAMBDA a, bb : removeOpaquePhis(a, bb, pastEnd),
             s3, [b \in DOMAIN s3.bbargs |-> b], 1)

----------------------------------------------------------------------------
(* The pass as a state machine: one action per step of runOnFunction.      *)

\* What a rewriting step visited and what it emitted.
NoPassEvent == [phase |-> "", site |-> 0, kind |-> "", q |-> "", src |-> "", new |-> <<>>]
PassEvent(phase, st, st2, site) ==
  LET i == InstOf(st.code, site)
  IN [phase |-> phase, site |-> site, kind |-> KindOf(st, site),
      q |-> IF HasInst(st.code, site) THEN i.q ELSE "",
      src |-> IF HasInst(st.code, site) /\ Len(i.ops) > 0 THEN KindOf(st, i.ops[1]) ELSE "",
      new |-> SelectSeq(st2.code, LAMBDA x : x.id >= st.nextId)]

Install(st2) ==
  /\ code' = st2.code
  /\ bbargs' = st2.bbargs
  /\ vsm' = st2.vsm
  /\ phiMoves' = st2.phiMoves
  /\ nextId' = st2.nextId
  /\ log' = st2.log
  /\ indirectApplies' = st2.indirectApplies

Init ==
  \E f \in Programs :
    /\ fn = f
    /\ code = f.code
    /\ bbargs = f.args
    /\ vsm = <<>>
    /\ phiMoves = {}
    /\ nextId = Id.FirstFresh
    /\ pc = "prepare"
    /\ idx = 0
    /\ todo = {}
    /\ log = <<>>
    /\ ev = NoPassEvent
    /\ mem = <<>>
    /\ indirectApplies = <<>>
    /\ silModule = NoModule

Prepare ==
  /\ pc = "prepare"
  /\ LET Then(st2) ==
           /\ Install(st2)
           /\ pc' = IF Len(st2.vsm) = 0 THEN "post" ELSE "allocate"
           /\ idx' = Len(st2.vsm)
           /\ ev' = [NoPassEvent EXCEPT !.phase = "prepare",
                       !.new = SelectSeq(st2.code, LAMBDA x : x.id >= nextId)]
     IN Then(prepareValueStorage(fn, removeUnreachableBlocks(fn, St)))
  /\ UNCHANGED <<silModule, fn, todo, mem>>

\* The uses among which the projection search of allocateValue chooses.
AllocateValueUses(value) ==
  IF GetStorage(vsm, value).isRewritten \/ isPhi(St, value) THEN {}
  ELSE ProjectableUses(fn, St, value, <<value>>, FALSE)

\* The first loop of allocateOpaqueStorage without its test for merge
\* values.
AllocateValueWithPhis ==
  /\ pc = "allocate"
  /\ LET Then(value, st2) ==
           /\ Install(st2)
           /\ pc' = IF st2.fatal THEN "abort" ELSE IF idx = 1 THEN "allocatePhi" ELSE pc
           /\ idx' = IF idx = 1 THEN Len(vsm) ELSE idx - 1
           /\ ev' = PassEvent("allocate", St, st2, value)
         Choose(value, uses) ==
           \E use \in IF uses = {} THEN {<<>>} ELSE uses :
             Then(value, IF isPhi(St, value) THEN allocatePhi(fn, St, value, <<>>)
                         ELSE allocateValue(fn, St, value, use))
     IN Choose(vsm[idx].value, AllocateValueUses(vsm[idx].value))
  /\ UNCHANGED <<silModule, fn, todo, mem>>

\* One iteration of allocateOpaqueStorage's first loop.
AllocateValue ==
  /\ pc = "allocate"
  /\ LET Then(value, st2) ==
           /\ Install(st2)
           /\ pc' = IF st2.fatal THEN "abort" ELSE IF idx = 1 THEN "allocatePhi" ELSE pc
           /\ idx' = IF idx = 1 THEN Len(vsm) ELSE idx - 1
           /\ ev' = PassEvent("allocate", St, st2, value)
         Choose(value, uses) ==
           \E use \in IF uses = {} THEN {<<>>} ELSE uses :
             Then(value, IF isPhi(St, value) THEN St ELSE allocateValue(fn, St, value, use))
     IN Choose(vsm[idx].value, AllocateValueUses(vsm[idx].value))
  /\ UNCHANGED <<silModule, fn, todo, mem>>

\* The uses among which the projection search of allocatePhi chooses.
AllocatePhiUses(value) ==
  IF isPhi(St, value)
  THEN ProjectableUses(fn, St, value,
         SelectSeq([k \in DOMAIN vsm |-> vsm[k].value],
                   LAMBDA v : \E o \in coalesce(St, value) :
                                InstOf(code, o[1]).ops[o[2]] = v),
         TRUE)
  ELSE {}

\* One iteration of allocateOpaqueStorage's second loop.
AllocatePhi ==
  /\ pc = "allocatePhi"
  /\ LET Then(value, st2) ==
           /\ Install(st2)
           /\ pc' = IF st2.fatal THEN "abort" ELSE IF idx = 1 THEN "def" ELSE pc
           /\ idx' = IF idx = 1 THEN 1 ELSE idx - 1
           /\ ev' = PassEvent("allocatePhi", St, st2, value)
         Choose(value, uses) ==
           \E use \in IF uses = {} THEN {<<>>} ELSE uses :
             Then(value, IF isPhi(St, value) THEN allocatePhi(fn, St, value, use) ELSE St)
     IN Choose(vsm[idx].value, AllocatePhiUses(vsm[idx].value))
  /\ UNCHANGED <<silModule, fn, todo, mem>>

\* rewriteFunction's loop: the definition of entry idx, then (one step each,
\* in use-list order) the uses collected after it.
RewriteDef ==
  /\ pc = "def"
  /\ LET Collect(value, st2, uses) ==
           /\ Install(st2)
           /\ todo' = uses
           /\ pc' = IF st2.fatal THEN "abort"
                    ELSE IF uses # {} THEN "use"
                    ELSE IF idx = Len(vsm) THEN "post" ELSE "def"
           /\ idx' = IF uses = {} /\ idx < Len(vsm) THEN idx + 1 ELSE idx
           /\ ev' = PassEvent("def", St, st2, value)
         Then(value, st2) ==
           Collect(value, st2, IF ValTy(st2, value).a THEN {} ELSE Uses(st2.code, value))
     IN Then(vsm[idx].value,
             IF vsm[idx].isRewritten THEN St
             ELSE markStorageRewritten(rewriteValue(fn, St, vsm[idx].value), vsm[idx].value))
  /\ UNCHANGED <<silModule, fn, mem>>

RewriteUse ==
  /\ pc = "use"
  /\ \E u \in todo :
       LET Then(st2) ==
             /\ Install(st2)
             /\ todo' = todo \ {u}
             /\ pc' = IF st2.fatal THEN "abort"
                      ELSE IF todo # {u} THEN "use"
                      ELSE IF idx = Len(vsm) THEN "post" ELSE "def"
             /\ idx' = IF todo = {u} /\ idx < Len(vsm) THEN idx + 1 ELSE idx
             /\ ev' = PassEvent("use", St, st2, u[1])
       IN Then(rewriteUse(fn, St, u[1], u[2]))
  /\ UNCHANGED <<silModule, fn, mem>>

\* The tail of rewriteFunction.
RewritePost ==
  /\ pc = "post"
  /\ LET Then(st2) ==
           /\ Install(st2)
           /\ pc' = IF st2.fatal THEN "abort" ELSE "delete"
           /\ ev' = [NoPassEvent EXCEPT !.phase = "post",
                       !.new = SelectSeq(st2.code, LAMBDA x : x.id >= nextId)]
         Returns(s1) == IF hasIndirectFormalResults(fn) THEN rewriteReturns(fn, s1) ELSE s1
     IN Then(Returns(rewriteIndirectApplies(fn, St)))
  /\ UNCHANGED <<silModule, fn, idx, todo, mem>>

\* The block arguments removeOpaquePhis erases while an instruction still
\* uses them.
ErasedWithUses(st, st2) ==
  {a.id : a \in {a \in AllArgs(st) : a \notin AllArgs(st2) /\ Uses(st2.code, a.id) # {}}}

\* deleteRewrittenInstructions and fixNesting.  Erasing an argument that
\* still has uses either stops at the assertion of eraseArgument or leaves
\* the user with a dangling operand; filterDeadArgs reads the stale value
\* pastEnd when a live argument follows the last dead one, and its closing
\* assertion stops the pass or is compiled out.
DeleteRewritten ==
  /\ pc = "delete"
  /\ \E pastEnd \in StaleIndices :
       LET Then(st2) ==
             /\ Install(st2)
             /\ \E outcome \in IF st2.fatal THEN {"abort"}
                              ELSE IF ErasedWithUses(St, st2) # {}
                                      \/ FilterOverruns(St, pastEnd)
                              THEN {"abort", "done"}
                              ELSE {"done"} :
                  pc' = outcome
             /\ ev' = [NoPassEvent EXCEPT !.phase = "delete",
                         !.q = IF \A i \in DOMAIN vsm : vsm[i].isRewritten
                               THEN "rewritten" ELSE "",
                         !.new = SelectSeq(st2.code, LAMBDA x : x.id >= nextId)]
       IN Then(deleteRewrittenInstructions(St, pastEnd))
  /\ UNCHANGED <<silModule, fn, idx, todo, mem>>

Next ==
  \/ Prepare
  \/ AllocateValue
  \/ AllocatePhi
  \/ RewriteDef
  \/ RewriteUse
  \/ RewritePost
  \/ DeleteRewritten

Spec == Init /\ [][Next]_vars

----------------------------------------------------------------------------
(* Properties of the whole pass.                                           *)

Lowering == fn.kind # "edge"
Finished == Lowering /\ pc = "done"
Allocated == Lowering /\ pc \in {"def", "use", "post", "delete"}

\* The type of a value, also of one that the pass has erased.
OrigArgs == UNION {Range(fn.args[b]) : b \in DOMAIN fn.args}
TypeOf(v) ==
  IF HasInst(code, v) \/ IsArg(St, v) THEN ValTy(St, v)
  ELSE IF \E a \in OrigArgs : a.id = v THEN (CHOOSE a \in OrigArgs : a.id = v).ty
  ELSE IF HasInst(fn.code, v) THEN InstOf(fn.code, v).ty
  ELSE Void

OpaqueInsts ==
  {x \in Range(code) : isOpaqueObject(x.ty)
                         \/ \E k \in DOMAIN x.ops : isOpaqueObject(TypeOf(x.ops[k]))}
OpaquePhis ==
  {a \in UNION {Range(bbargs[b]) : b \in DOMAIN bbargs \ {1}} : isAddressOnly(a.ty)}

\* C1: when runOnFunction has completed, every entry of the storage table
\* was marked rewritten before the table was cleared, no address-only
\* argument of a non-entry block is left, and no remaining instruction has
\* an operand or a result of opaque object type.
C1_NoOpaqueValueLeft ==
  Finished => /\ ev.q = "rewritten"
              /\ OpaquePhis = {}
              /\ OpaqueInsts = {}

\* The values whose storage has been assigned: an address, a use-projection,
\* or a def-projection out of an operand whose address is known.
HasAssignedStorage(i) ==
  \/ vsm[i].storageAddress # 0
  \/ vsm[i].isUseProjection
  \/ /\ vsm[i].isDefProjection
     /\ KindOf(St, vsm[i].value) \in {"copy_value", "struct_extract", "tuple_extract"}
     /\ vsm[vsm[i].projectedStorageID].storageAddress # 0

\* The insertion point of a value's definition.
DefPoint(v) ==
  IF HasInst(code, v) THEN v ELSE code[BlockBegin(code, ArgBlock(St, v))].id

\* Two calls of materializeAddress in a row.
MaterializedTwice(v) ==
  LET r1 == materializeAddress(fn, St, DefPoint(v), v)
      r2 == materializeAddress(fn, r1.st, DefPoint(v), v)
  IN [first |-> r1.v, second |-> r2.v,
      emitted |-> Len(r2.st.code) - Len(r1.st.code)]

\* C5: for every value with assigned storage, materializeAddress called
\* twice returns the same address both times and the second call emits no
\* instruction; this holds of two calls made at any point of the rewriting
\* and of the calls the rewriters themselves make.
C5_MaterializeAddressIsStable ==
  Allocated =>
    /\ \A i \in DOMAIN vsm :
         HasAssignedStorage(i) =>
           LET m == MaterializedTwice(vsm[i].value)
           IN m.first # 0 /\ m.second = m.first /\ m.emitted = 0
    /\ \A i, j \in DOMAIN log :
         (i < j /\ log[i].value = log[j].value) =>
           (log[j].addr = log[i].addr /\ log[j].emitted = 0)

\* A rewriter asked for an address a second time after the first call had
\* emitted the projection.
C5_Witness ==
  /\ Allocated
  /\ \E i, j \in DOMAIN log :
       i < j /\ log[i].value = log[j].value /\ log[i].emitted > 0

\* The control-flow paths from a block to a function exit, as block sequences.
RECURSIVE PathsFrom(_)
PathsFrom(b) ==
  IF fn.succ[b] = <<>> THEN {<<b>>}
  ELSE UNION {{<<b>> \o p : p \in PathsFrom(fn.succ[b][k])} : k \in DOMAIN fn.succ[b]}

\* The instructions along a path.
RECURSIVE PathCode(_)
PathCode(p) ==
  IF p = <<>> THEN <<>>
  ELSE SelectSeq(code, LAMBDA x : x.blk = Head(p)) \o PathCode(Tail(p))

\* The instruction accesses the storage allocated by `alloc`.
Accesses(x, alloc) ==
  x.kind # "dealloc_stack" /\ \E k \in DOMAIN x.ops : getAccessBase(code, x.ops[k]) = alloc

NoOpaqueValue ==
  /\ \A x \in Range(fn.code) : ~isOpaqueObject(x.ty)
  /\ \A a \in OrigArgs : ~isOpaqueObject(a.ty)

\* The input function is left as it was.
Unchanged == code = fn.code /\ bbargs = fn.args

\* Nothing of the function's or of its callees' conventions is formally indirect.
NothingFormallyIndirect ==
  /\ \A k \in DOMAIN fn.params : ~fn.params[k].formalIndirect
  /\ \A k \in DOMAIN fn.results : ~fn.results[k].formalIndirect
  /\ \A x \in Range(fn.code) :
       x.kind \in {"apply", "try_apply", "begin_apply"} =>
         /\ ~Callee(x.q).indirectResult
         /\ \A k \in DOMAIN Callee(x.q).params : ~Callee(x.q).params[k].indirect

AllBlocksReachable == ReachableBlocks(fn.succ, {1}) = DOMAIN fn.succ

\* Two or more results are returned in an owned tuple that has another use.
ReturnsSharedTuple ==
  /\ Len(fn.results) >= 2
  /\ \E x \in Range(fn.code) :
       /\ x.kind = "return"
       /\ InstOf(fn.code, x.ops[1]).own = "owned"
       /\ Cardinality(Uses(fn.code, x.ops[1])) > 1

\* C7 as stated: a function without opaque values is unchanged by the pass,
\* whatever is formally indirect in its signature or in its callees'.
C7_NoOpaqueUnchanged ==
  (Finished /\ NoOpaqueValue) => Unchanged

\* C7: a function without opaque values, all of whose blocks are reachable,
\* with no formally indirect parameter or result, no call of a callee with
\* a formally indirect argument or result, and no owned tuple of several
\* results that has a use besides the return, is unchanged at every step of
\* the pass.
C7_PlainFunctionUnchanged ==
  (/\ Lowering
   /\ NoOpaqueValue
   /\ NothingFormallyIndirect
   /\ AllBlocksReachable
   /\ ~ReturnsSharedTuple) => Unchanged

\* The pass has finished on such a function, which has parameters, calls
\* and block arguments.
C7_Witness ==
  /\ Finished
  /\ NoOpaqueValue /\ NothingFormallyIndirect /\ AllBlocksReachable /\ ~ReturnsSharedTuple
  /\ fn.params # <<>>
  /\ \E x \in Range(code) : x.kind = "apply"
  /\ \E b \in DOMAIN bbargs \ {1} : bbargs[b] # <<>>

\* allocateOpaqueStorage has just finished.
AllocationDone == Lowering /\ pc = "def" /\ ev.phase = "allocatePhi"

\* The structs and tuples built from two owned opaque fields, each field
\* used once, as that record's initializer.
Records ==
  {x \in Range(code) :
     /\ x.kind \in {"struct", "tuple"}
     /\ Len(x.ops) = 2
     /\ \A k \in DOMAIN x.ops :
          /\ isOpaqueObject(ValTy(St, x.ops[k]))
          /\ ValOwn(St, x.ops[k]) = "owned"
          /\ Uses(code, x.ops[k]) = {<<x.id, k - 1>>}}

\* The stack allocations made for a value.
AllocationsOf(v) ==
  {x \in Range(code) : x.kind = "alloc_stack" /\ Contains(vsm, v)
                         /\ GetStorage(vsm, v).storageAddress = x.id}

\* The field is a use-projection into operand k - 1 of the storage `into`.
FieldProjectsInto(x, k, into) ==
  LET s == GetStorage(vsm, x.ops[k])
  IN /\ s.isUseProjection
     /\ s.projectedOperandNum = k - 1
     /\ s.projectedStorageID = Ordinal(vsm, into)
     /\ s.storageAddress = 0

RECURSIVE ChainEnd(_, _, _)
ChainEnd(m, i, seen) ==
  IF i \in seen \/ i \notin DOMAIN m THEN 0
  ELSE IF isProjection(m[i]) THEN ChainEnd(m, m[i].projectedStorageID, seen \cup {i})
  ELSE i

\* The storage the value ends up in, following the projection links, is of a
\* type that depends on an opened archetype.
StorageOfOpenedType(v) ==
  /\ Contains(vsm, v)
  /\ LET e == ChainEnd(vsm, Ordinal(vsm, v), {})
     IN e # 0 /\ OpenedArchetypes(TypeOf(vsm[e].value)) # <<>>

\* The field is the result of an instruction of the function that neither
\* reuses nor projects its operand's storage and is not exempt from
\* allocation.
PlainField(v) ==
  /\ HasInst(fn.code, v)
  /\ getReusedStorageOperand(St, v) = 0
  /\ getProjectedDefOperand(St, v) = 0
  /\ ~doesNotNeedStackAllocation(St, v)

Copying(x) == x.kind \in {"copy_addr", "load"} /\ x.q = "copy"

\* The step rewrote an explicit copy of the input: a copy_value, a
\* load [copy], or a store of a copy_value.
ReplacesExplicitCopy ==
  \/ ev.kind = "copy_value"
  \/ ev.kind = "load" /\ ev.q = "copy"
  \/ ev.kind = "store" /\ ev.src = "copy_value"

\* C9: a step of the pass emits a copying transfer only when it rewrites an
\* explicit copy of the input; every other copy_addr or load it emits is a
\* move ([take]) or trivial.
C9_CopiesOnlyReplaceCopies ==
  Lowering => \A i \in DOMAIN ev.new : Copying(ev.new[i]) => ReplacesExplicitCopy

\* What a storage-table entry has been assigned.
AssignmentOf(s) ==
  IF s.isUseProjection THEN "use"
  ELSE IF s.isDefProjection THEN "def"
  ELSE IF s.storageAddress # 0 THEN "root"
  ELSE "none"

\* The entries a step leaves in the table, and those it adds.
KeptEntries == DOMAIN vsm \cap DOMAIN vsm'
NewEntries == DOMAIN vsm' \ DOMAIN vsm

\* allocateOpaqueStorage returns with this step.
AllocationFinishes == pc = "allocatePhi" /\ pc' = "def"

LeftUnassigned(c, v) ==
  \/ HasInst(c, v) /\ InstOf(c, v).kind \in
       {"open_existential_value", "open_existential_box_value", "unchecked_enum_data",
        "unchecked_bitwise_cast", "load_borrow", "begin_apply"}
  \/ KindOf([St EXCEPT !.code = c],
            getTerminatorForResult([St EXCEPT !.code = c], v)) = "switch_enum"

IsRootAddress(a) ==
  \/ KindOf(St, a) = "alloc_stack"
  \/ \E k \in DOMAIN bbargs[1] : bbargs[1][k].id = a

AllocatedGuaranteed ==
  Lowering /\ ev.phase = "allocate" /\ ~isPhi(St, ev.site)
  /\ ValOwn(St, ev.site) = "guaranteed"

\* The step created a stack allocation.
MadeAllocation == \E k \in DOMAIN ev.new : ev.new[k].kind = "alloc_stack"

PseudoCallResults == {x \in Range(code) : isPseudoCallResult(St, x.id)}
PseudoReturnValues == {x \in Range(code) : isPseudoReturnValue(fn, code, x.id)}

\* The storage table exists: prepareValueStorage has filled it and
\* deleteRewrittenInstructions has not yet cleared it.
TableLive == Lowering /\ pc \in {"allocate", "allocatePhi", "def", "use", "post", "delete"}

SameProjection(a, b) ==
  /\ a.projectedStorageID = b.projectedStorageID
  /\ a.projectedOperandNum = b.projectedOperandNum
  /\ a.isUseProjection = b.isUseProjection
  /\ a.isDefProjection = b.isDefProjection
  /\ a.initializesEnum = b.initializesEnum

\* C14: as long as the table exists (until deleteRewrittenInstructions
\* clears it), every step leaves each value mapped at most once, adds entries
\* only at the end and only before rewriting begins, and keeps the ordinal of
\* every entry; an entry whose value changes is a replaceValue: the old value
\* is unmapped, the new value was not mapped before and is mapped at the same
\* ordinal with the same projection record.
C14_TableOnlyAppendedBeforeRewriting ==
  [][(Lowering /\ pc # "delete") =>
       /\ Len(vsm') >= Len(vsm)
       /\ Len(vsm') > Len(vsm) => pc = "prepare"
       /\ \A i, j \in DOMAIN vsm' : vsm'[i].value = vsm'[j].value => i = j
       /\ \A i \in DOMAIN vsm :
            \/ vsm'[i].value = vsm[i].value
            \/ /\ pc \in {"def", "use", "post"}
               /\ ~Contains(vsm', vsm[i].value)
               /\ ~Contains(vsm, vsm'[i].value)
               /\ Ordinal(vsm', vsm'[i].value) = i
               /\ SameProjection(vsm'[i], vsm[i])]_vars

\* A switch_enum has been rewritten and the entry of its payload argument is
\* now the entry of the load that stands in for it.
C14_Witness ==
  /\ Lowering /\ ev.phase = "use" /\ ev.kind = "switch_enum"
  /\ \E i \in DOMAIN vsm :
       /\ KindOf(St, vsm[i].value) = "load"
       /\ vsm[i].value >= Id.FirstFresh
       /\ ~IsArg(St, 21)


\* The address recorded for every storage, in table order.
StorageAddresses(m) == [i \in DOMAIN m |-> m[i].storageAddress]

\* The step rewrites the branch operand of a phi (PhiRewriter::materializeOperand).
PhiOperandStep == Lowering /\ pc = "use" /\ ev'.phase = "use" /\ ev'.kind = "br"

\* C15: rewriting a phi operand, which materializes the phi's storage with
\* intoPhiOperand = true, changes the recorded address of no storage.
C15_PhiOperandKeepsAddresses ==
  [][PhiOperandStep => StorageAddresses(vsm') = StorageAddresses(vsm)]_vars

\* A phi operand has been rewritten whose phi projects into a composing user
\* that projects into a user itself; the projections were emitted on the edge.
C15_Witness ==
  /\ Lowering /\ ev.phase = "use" /\ ev.kind = "br"
  /\ \E k \in DOMAIN ev.new : ev.new[k].kind \in {"struct_element_addr", "tuple_element_addr"}
  /\ \E i \in DOMAIN vsm :
       /\ isPhi(St, vsm[i].value)
       /\ isComposingUseProjection(vsm[i])
       /\ isComposingUseProjection(vsm[vsm[i].projectedStorageID])


\* The table entries of values that must reuse their operand's storage.
ReusedStorageEntries == {i \in DOMAIN vsm : getReusedStorageOperand(St, vsm[i].value) # 0}

\* Allocation is running or has just finished; nothing is rewritten yet.
DuringAllocation ==
  Lowering /\ (pc \in {"allocate", "allocatePhi"} \/ (pc = "def" /\ ev.phase = "allocatePhi"))

StoreStep == Lowering /\ pc = "use" /\ ev'.phase = "use" /\ ev'.kind = "store"

\* C18: rewriting a store of the opaque value v deletes the store and puts
\* exactly one new instruction in its place, a copy_addr from the address of
\* v's storage to the store's destination, whose initialization flag is the
\* store's qualifier.  It takes from the source unless v is a copy_value
\* whose only use in the function is the store: then v's storage is a def-projection with the
\* address of the copied operand's storage, and the copy_addr does not take.
C18_StoreBecomesOneCopyAddr ==
  [][StoreStep =>
       LET store == InstOf(code, ev'.site)
           v == store.ops[1]
           srcAddr == GetStorage(vsm, v).storageAddress
           folded == isStoreCopy([St EXCEPT !.code = fn.code], v)
       IN /\ ~HasInst(code', ev'.site)
          /\ Len(code') = Len(code)
          /\ Len(ev'.new) = 1
          /\ ev'.new[1].kind = "copy_addr"
          /\ PosOf(code', ev'.new[1].id) = PosOf(code, ev'.site)
          /\ srcAddr # 0
          /\ ev'.new[1].ops = <<srcAddr, store.ops[2]>>
          /\ ev'.new[1].n = (IF store.q = "init" THEN 1 ELSE 0)
          /\ ev'.new[1].q = (IF folded THEN "copy" ELSE "take")
          /\ folded =>
               /\ GetStorage(vsm, v).isDefProjection
               /\ srcAddr = GetStorage(vsm, InstOf(code, v).ops[1]).storageAddress]_vars

\* The store of a copy_value made only for it has been rewritten into a
\* copy_addr that does not take.
C18_Witness ==
  /\ Lowering /\ ev.phase = "use" /\ ev.kind = "store" /\ ev.src = "copy_value"
  /\ Len(ev.new) = 1
  /\ ev.new[1].kind = "copy_addr" /\ ev.new[1].q = "copy"
  /\ ~HasInst(code, ev.site)


\* C20: the incoming values allocatePhi passes to the use-projection search
\* for the phi it visits next are exactly the phi's coalesced values, one
\* entry per coalesced operand and none of them null.
C20_IncomingValuesAreCoalescedValues ==
  (Lowering /\ pc = "allocatePhi" /\ isPhi(St, vsm[idx].value)) =>
    /\ Len(coalescedValues(St, vsm[idx].value)) = Cardinality(coalesce(St, vsm[idx].value))
    /\ Range(coalescedValues(St, vsm[idx].value))
         = {InstOf(code, o[1]).ops[o[2]] : o \in coalesce(St, vsm[idx].value)}


\* C22: when allocation has finished, a value of the storage table has a
\* def-projection operand exactly if its storage is marked isDefProjection.
C22_DefOperandIffDefProjection ==
  AllocationDone =>
    \A i \in DOMAIN vsm :
      (getProjectedDefOperand(St, vsm[i].value) # 0) <=> vsm[i].isDefProjection


\* The opaque values whose storage the next rewriting step reads: the value
\* whose uses are being rewritten, the address-only operands of a composing
\* definition or call about to be rewritten, and the address-only arguments
\* of the calls left to the post pass.
ReadBy(inst) ==
  {InstOf(code, inst).ops[k] : k \in DOMAIN InstOf(code, inst).ops}
StorageRead ==
  {v \in IF pc = "use" THEN {vsm[idx].value}
         ELSE IF pc = "def" /\ ~vsm[idx].isRewritten
                 /\ KindOf(St, vsm[idx].value) \in {"struct", "tuple", "enum", "apply"}
         THEN ReadBy(vsm[idx].value)
         ELSE IF pc = "post"
         THEN UNION {ReadBy(a) : a \in {a \in Range(indirectApplies) : HasInst(code, a)}}
         ELSE {} :
     isAddressOnly(ValTy(St, v)) /\ Contains(vsm, v)}

\* C23: whenever a use of an opaque value is rewritten, or a composing
\* definition or a call argument reads the storage of an opaque value, that
\* storage is already marked rewritten and has a storage address.
C23_StorageRewrittenBeforeRead ==
  Lowering =>
    \A v \in StorageRead :
      GetStorage(vsm, v).isRewritten /\ GetStorage(vsm, v).storageAddress # 0

C23_Witness ==
  /\ Lowering /\ pc = "use" /\ todo # {}
  /\ KindOf(St, vsm[idx].value) \in {"unchecked_enum_data", "open_existential_value"}
  /\ GetStorage(vsm, vsm[idx].value).isRewritten


\* The entries for which the step records a projection into a composing
\* user (a use-projection with an operand number).
NewComposingProjections ==
  {i \in DOMAIN vsm :
     /\ i \in DOMAIN vsm'
     /\ ~vsm[i].isUseProjection /\ vsm'[i].isUseProjection
     /\ vsm'[i].projectedOperandNum # InvalidOper}

\* The step of allocateOpaqueStorage visits entry idx and goes on to the
\* entry before it; after the first entry the second loop starts again at
\* the last entry.
ReverseVisit(loop, next) ==
  pc = loop /\ pc' # "abort" =>
    \/ idx > 1 /\ pc' = loop /\ idx' = idx - 1
    \/ idx = 1 /\ pc' = next /\ idx' = IF next = "allocatePhi" THEN Len(vsm) ELSE 1

\* C24: both loops of allocateOpaqueStorage visit the table from its last
\* entry to its first; the first loop allocates no merge value and the second
\* nothing but merge values, so that merge values are allocated after every
\* other value; and a value is projected into a composing user only when the
\* entry that owns the user's storage was visited before it (it follows the
\* value in the table and, for a merge value, is not a merge value) or is a
\* function argument, whose storage exists since the table was built.
C24_PhisAfterValuesInReverseOrder ==
  [][Lowering =>
       /\ ReverseVisit("allocate", "allocatePhi")
       /\ ReverseVisit("allocatePhi", "def")
       /\ pc = "allocate" /\ isPhi(St, vsm[idx].value) => vsm' = vsm /\ code' = code
       /\ pc = "allocatePhi" /\ ~isPhi(St, vsm[idx].value) => vsm' = vsm /\ code' = code
       /\ pc \in {"allocate", "allocatePhi"} =>
            \A i \in NewComposingProjections :
              /\ i = idx
              /\ LET j == vsm'[i].projectedStorageID
                 IN \/ j > i /\ ~isPhi(St, vsm[j].value)
                    \/ vsm[j].isRewritten /\ vsm[j].storageAddress # 0]_vars

C24_Witness ==
  /\ Lowering /\ ev.phase = "allocatePhi" /\ isPhi(St, ev.site)
  /\ GetStorage(vsm, ev.site).isUseProjection
  /\ GetStorage(vsm, ev.site).projectedOperandNum # InvalidOper
  /\ KindOf(St, vsm[GetStorage(vsm, ev.site).projectedStorageID].value) = "struct"


\* The alloc_stack instructions the last allocation step created.
FreshAllocations ==
  {x \in Range(ev.new) : x.kind = "alloc_stack" /\ ev.phase \in {"allocate", "allocatePhi"}}

\* The instructions that open an archetype the type depends on.
OpeningInsts(t) ==
  {i.id : i \in {i \in Range(code) : /\ i.kind = "open_existential_value"
                                     /\ i.ty.n \in Range(OpenedArchetypes(t))}}

\* C26: a fresh allocation whose type depends on no opened archetype is the
\* first instruction of the entry block; any other one directly follows the
\* opening instruction of its type that all the opening instructions of the
\* type dominate, so that every one of them dominates the allocation.
C26_AllocationAfterLatestOpening ==
  Lowering =>
    \A x \in FreshAllocations :
      IF OpeningInsts(x.ty) = {} THEN code[1] = x
      ELSE /\ \E latest \in OpeningInsts(x.ty) :
                /\ \A o \in OpeningInsts(x.ty) : dominates(code, o, latest)
                /\ PosOf(code, x.id) = PosOf(code, latest) + 1
           /\ \A o \in OpeningInsts(x.ty) : properlyDominates(code, o, x.id)

C26_Witness ==
  /\ Lowering
  /\ \E x \in FreshAllocations :
       /\ x.ty.n = "S12"
       /\ Cardinality(OpeningInsts(x.ty)) = 2
       /\ code[PosOf(code, x.id) - 1].ty.n = "O2"


\* The values that need the storage of a value to be available: the value
\* itself or, for a merge value, its coalesced incoming values.
IncomingValues(v) ==
  IF isPhi(St, v) THEN {InstOf(code, o[1]).ops[o[2]] : o \in coalesce(St, v)} ELSE {v}

\* The root address dominates the definition of a value, or the block of a
\* block argument.
RootDominates(root, w) ==
  IF HasInst(code, w) THEN properlyDominates(code, root, w)
  ELSE InstOf(code, root).blk = 1 /\ ArgBlock(St, w) # 1

\* The root address of the base storage reached from entry j is a function
\* argument or an alloc_stack that dominates the incoming values of v.
RootAvailable(v, j, intoPhi) ==
  LET b == BaseOrdinal(vsm, j, ~intoPhi)
      root == vsm[b].storageAddress
  IN /\ b # 0
     /\ \/ IsArg(St, root) /\ ArgBlock(St, root) = 1
        \/ /\ KindOf(St, root) = "alloc_stack"
           /\ \A w \in IncomingValues(v) : RootDominates(root, w)

\* A projection into a composing user is recorded only over an available
\* root address.
ProjectionsOverAvailableRoot ==
  [][Lowering /\ pc \in {"allocate", "allocatePhi"} =>
       \A i \in NewComposingProjections :
         RootAvailable(vsm[i].value, vsm'[i].projectedStorageID, pc = "allocatePhi")]_vars

\* C25: a projection of a value into a composing user is recorded only if
\* the base storage of the user has a root address that is a function
\* argument or an alloc_stack dominating the value's definition (for a merge
\* value: its coalesced incoming values); any other use is passed over and
\* the search goes on.
C25_ProjectionOnlyOverDominatingRoot ==
  [][Lowering /\ pc \in {"allocate", "allocatePhi"} =>
       /\ \A i \in NewComposingProjections :
            RootAvailable(vsm[i].value, vsm'[i].projectedStorageID, pc = "allocatePhi")
       /\ (pc = "allocatePhi" /\ isPhi(St, vsm[idx].value)
             /\ DominanceCheckedUses(fn, St, vsm[idx].value, TRUE) # {})
            => pc' # "abort"]_vars

\* A value defined before the allocation of its user is given storage of its
\* own.
SkippedUse ==
  /\ Lowering /\ ev.phase = "allocate" /\ ev.kind = "copy_value"
  /\ \E x \in FreshAllocations : x.ty.n = "O1"
  /\ \E u \in Uses(code, ev.site) : KindOf(St, u[1]) = "struct"


\* The position where the dealloc_stack instructions that directly precede
\* position p begin (p itself when there is none).
RunStart(c, p) ==
  CHOOSE q \in 1..p :
    /\ \A k \in q..(p - 1) : c[k].kind = "dealloc_stack" /\ c[k].blk = c[p].blk
    /\ q = 1 \/ c[q - 1].kind # "dealloc_stack" \/ c[q - 1].blk # c[p].blk

\* The argument that is the slot of formally indirect result i.
ResultSlot(i) ==
  bbargs[1][Cardinality({j \in 1..i : fn.results[j].formalIndirect})].id

\* The results a return hands back before it is rewritten.
OldResults(ret) ==
  IF fn.numDirectResults # 1 THEN InstOf(code, ret.ops[1]).ops ELSE <<ret.ops[1]>>

\* The moves and stores into a slot that the step adds to a block.
NewMovesInto(slot, blk) ==
  {x \in Range(code') :
     /\ x.id >= nextId /\ x.blk = blk
     /\ x.kind \in {"copy_addr", "store"} /\ x.ops[2] = slot}

\* C27: every move or store into an indirect result slot that rewriting a
\* return emits stands before the dealloc_stack instructions that directly
\* precede the return, and a result whose storage address is the slot
\* already gets no move; any other indirect result gets exactly one.
C27_ResultMovesBeforeDeallocs ==
  [][(Lowering /\ pc = "post" /\ pc' = "delete" /\ hasIndirectFormalResults(fn)) =>
       \A ret \in {r \in Range(code) : r.kind = "return"} :
         \A i \in {i \in DOMAIN fn.results : fn.results[i].formalIndirect} :
           LET old == OldResults(ret)[i]
               moves == NewMovesInto(ResultSlot(i), ret.blk)
               p == PosOf(code, ret.id)
           IN /\ \A x \in moves :
                   /\ PosOf(code', x.id) < RunStart(code', PosOf(code', ret.id))
                   /\ \A k \in RunStart(code, p)..(p - 1) :
                        PosOf(code', x.id) < PosOf(code', code[k].id)
              /\ Cardinality(moves) =
                   IF isAddressOnly(ValTy(St, old))
                      /\ GetStorage(vsm, old).storageAddress = ResultSlot(i)
                   THEN 0 ELSE 1]_vars

C27_Witness ==
  /\ Lowering /\ ev.phase = "post" /\ hasIndirectFormalResults(fn)
  /\ \E x \in Range(ev.new) :
       /\ x.kind = "copy_addr" /\ IsArg(St, x.ops[2])
       /\ \E k \in DOMAIN code :
            /\ k > PosOf(code, x.id)
            /\ code[k].kind = "dealloc_stack" /\ code[k].blk = x.blk


\* The call sites with a formally indirect result among a set of
\* instructions.
IndirectResultCalls(insts) ==
  {x \in insts : x.kind = "apply" /\ Callee(x.q).indirectResult}

\* The call sites a step takes out of indirectApplies, and the calls it
\* creates.
ErasedApplies ==
  {a \in Range(indirectApplies) :
     a \notin Range(indirectApplies') /\ Callee(InstOf(code, a).q).indirectResult}
ConvertedCalls == IndirectResultCalls({x \in Range(code') : x.id >= nextId})

\* C28: a step of rewriting creates one call for each call site with an
\* indirect result that it takes out of indirectApplies and no other one, no
\* site ever comes back into indirectApplies, every such site of the function
\* is in indirectApplies when rewriting starts and none is left in it, or in
\* the function, when rewriting has ended: each is converted exactly once.
C28_IndirectResultCallsConvertedOnce ==
  [][Lowering =>
       /\ pc \in {"allocate", "allocatePhi", "def", "use", "post"} =>
            /\ Range(indirectApplies') \subseteq Range(indirectApplies)
            /\ Cardinality(ConvertedCalls) = Cardinality(ErasedApplies)
            /\ \A a \in ErasedApplies :
                 \E x \in ConvertedCalls : x.q = InstOf(code, a).q
       /\ pc = "prepare" =>
            \A x \in IndirectResultCalls(Range(code')) : x.id \in Range(indirectApplies')
       /\ pc' = "delete" =>
            \A a \in Range(indirectApplies') : ~Callee(InstOf(code', a).q).indirectResult
       /\ pc' = "done" =>
            \A x \in IndirectResultCalls(Range(code')) : x.id >= Id.FirstFresh]_vars

C28_Witness ==
  /\ Lowering /\ pc = "done" /\ fn.kind = "pairCall"
  /\ Cardinality(IndirectResultCalls(Range(code))) = 1
  /\ \E x \in IndirectResultCalls(Range(code)) : Len(x.ops) = 2


\* The operands of a branch at the positions of the arguments of its
\* destination block that are not address-only, in their order.
LiveOperands(x) ==
  LET live == SelectSeq([k \in DOMAIN x.ops |-> k],
                        LAMBDA k : ~isAddressOnly(bbargs[x.n][k].ty))
  IN [j \in DOMAIN live |-> x.ops[live[j]]]

\* C29: the cleanup erases the address-only arguments of every block but
\* the entry block and puts, in place of every branch to a block that loses an
\* argument, one branch with the operands of the remaining arguments, in
\* their order, those behind the last erased argument included.
C29_BranchesKeepLiveOperands ==
  [][(Lowering /\ pc = "delete" /\ pc' = "done") =>
       \A b \in DOMAIN bbargs \ {1} :
         /\ bbargs'[b] = SelectSeq(bbargs[b], LAMBDA a : ~isAddressOnly(a.ty))
         /\ bbargs'[b] # bbargs[b] =>
              \A x \in {x \in Range(code) : x.kind = "br" /\ x.n = b} :
                /\ ~HasInst(code', x.id)
                /\ Cardinality({y \in Range(code') : y.kind = "br" /\ y.blk = x.blk}) = 1
                /\ \A y \in {y \in Range(code') : y.kind = "br" /\ y.blk = x.blk} :
                     y.n = b /\ y.ops = LiveOperands(x)]_vars

\* ---------------------------------------------------------------------------
\* The module pass: AddressLowering::run over a module of functions.
\* ---------------------------------------------------------------------------

\* Largest module and number of invocations of the pass that are explored.
MaxFunctions == 3
MaxRuns == 2

\* A function of the module: a definition or a declaration without a body,
\* with the number of times runOnFunction lowered its body.
ModuleFunctions(n) ==
  {[i \in 1..n |-> [isDefinition |-> d[i], lowerings |-> 0]] : d \in [1..n -> BOOLEAN]}

InitModule ==
  \E n \in 0..MaxFunctions, lowered \in BOOLEAN :
    \E fs \in ModuleFunctions(n) :
      /\ silModule = [functions |-> fs, loweredAddresses |-> lowered, runs |-> 0]
      /\ fn = [kind |-> "module", lowered |-> lowered, numDirectResults |-> 0]
      /\ code = <<>>
      /\ bbargs = <<>>
      /\ vsm = <<>>
      /\ phiMoves = {}
      /\ nextId = Id.FirstFresh
      /\ pc = "idle"
      /\ idx = 0
      /\ todo = {}
      /\ log = <<>>
      /\ ev = NoPassEvent
      /\ mem = <<>>
      /\ indirectApplies = <<>>

\* getModule()->useLoweredAddresses()
useLoweredAddresses(m) == m.loweredAddresses

\* getModule()->setLoweredAddresses(true)
setLoweredAddresses(m, b) == [m EXCEPT !.loweredAddresses = b]

\* AddressLowering::runOnFunction on the i-th function of the module: a
\* declaration is left alone, a definition is lowered.
runOnFunction(m, i) ==
  IF ~m.functions[i].isDefinition THEN m
  ELSE [m EXCEPT !.functions[i].lowerings = @ + 1]

\* AddressLowering::run entered without looking at the stage flag.
RunUnguarded ==
  /\ pc = "idle"
  /\ silModule.runs < MaxRuns
  /\ silModule' = [silModule EXCEPT !.runs = @ + 1]
  /\ pc' = "loop"
  /\ idx' = 1
  /\ UNCHANGED <<fn, code, bbargs, vsm, phiMoves, nextId, todo, log, ev, mem, indirectApplies>>

\* AddressLowering::run up to its loop: a module that already uses lowered
\* addresses is returned from at once.
Run ==
  /\ pc = "idle"
  /\ silModule.runs < MaxRuns
  /\ silModule' = [silModule EXCEPT !.runs = @ + 1]
  /\ IF useLoweredAddresses(silModule)
       THEN pc' = "idle" /\ idx' = 0
       ELSE pc' = "loop" /\ idx' = 1
  /\ UNCHANGED <<fn, code, bbargs, vsm, phiMoves, nextId, todo, log, ev, mem, indirectApplies>>

\* One iteration of run's loop over the functions of the module. Lowering a
\* definition either completes or ends the process in a fatal error.
RunOnFunction ==
  /\ pc = "loop"
  /\ idx <= Len(silModule.functions)
  /\ \E fatal \in {b \in BOOLEAN : b => silModule.functions[idx].isDefinition} :
       IF fatal
         THEN pc' = "abort" /\ UNCHANGED <<silModule, idx>>
         ELSE /\ silModule' = runOnFunction(silModule, idx)
              /\ idx' = idx + 1
              /\ pc' = "loop"
  /\ UNCHANGED <<fn, code, bbargs, vsm, phiMoves, nextId, todo, log, ev, mem, indirectApplies>>

\* The end of run: the loop is over and the stage flag is set.
SetLoweredAddresses ==
  /\ pc = "loop"
  /\ idx > Len(silModule.functions)
  /\ silModule' = setLoweredAddresses(silModule, TRUE)
  /\ pc' = "idle"
  /\ idx' = 0
  /\ UNCHANGED <<fn, code, bbargs, vsm, phiMoves, nextId, todo, log, ev, mem, indirectApplies>>

NextModule == Run \/ RunOnFunction \/ SetLoweredAddresses

SpecModule == InitModule /\ [][NextModule]_vars

\* The module as another pass sees it: the functions and the stage flag.
ModuleContents(m) == [functions |-> m.functions, loweredAddresses |-> m.loweredAddresses]

\* The module once the pass has run on it to the end at least once.
LoweredOnce(m, wasLowered) ==
  /\ m.loweredAddresses
  /\ \A i \in 1..Len(m.functions) :
       m.functions[i].lowerings =
         IF m.functions[i].isDefinition /\ ~wasLowered THEN 1 ELSE 0

\* C30: a run on a module that already uses lowered addresses visits no
\* function and changes nothing; a run on any other module that comes to its
\* end has lowered each definition once, no declaration, and has set the
\* flag; so after any number of completed runs the module is what it was
\* after the first.
C30_ModulePassIdempotent ==
  [][/\ (pc = "idle" /\ silModule.loweredAddresses /\ silModule'.runs = silModule.runs + 1)
          => (ModuleContents(silModule') = ModuleContents(silModule) /\ pc' = "idle")
     /\ (pc' = "idle" /\ silModule'.runs >= 1) => LoweredOnce(silModule', fn.lowered)
     /\ (pc = "idle" /\ silModule.runs >= 1 /\ pc' = "idle")
          => ModuleContents(silModule') = ModuleContents(silModule)]_vars

C30_Witness ==
  /\ fn.kind = "module" /\ ~fn.lowered
  /\ pc = "idle" /\ silModule.runs = 2
  /\ \E i \in 1..Len(silModule.functions) :
       silModule.functions[i].isDefinition /\ silModule.functions[i].lowerings = 1
  /\ \E i \in 1..Len(silModule.functions) : ~silModule.functions[i].isDefinition

====
